---------------------------- MODULE Spec2Model ----------------------------
(***************************************************************************)
(* Verification model of the zeabur-monitor persistence / session /        *)
(* notification core.                                                      *)
(*                                                                         *)
(*   notifications.js   webhook registry, sendWebhook fan-out, testWebhook *)
(*   session-store.js   createSession / validateSession / destroySession   *)
(*                      over the in-process map or the Redis client        *)
(*   db.js (part_002)   loadAccounts / saveAccounts over the accounts file *)
(*                      or the accounts table of PostgreSQL                *)
(*                                                                         *)
(* JavaScript values that may be undefined are modelled as options: the    *)
(* empty set is undefined/absent, a singleton {v} is the value v.          *)
(***************************************************************************)
EXTENDS Integers, Sequences, FiniteSets, TLC

VARIABLES
    webhookConfigs,  \* notifications.js:22   let webhookConfigs = []
    sw,              \* the sendWebhook call in progress / last finished
    tw,              \* the testWebhook call in progress / last finished
    now,             \* Date.now(), in seconds
    redisUrl,        \* session-store.js:21   const redisUrl, once read
    redisPing,       \* what the Redis server answered to ping(), once it has
    redisClient,     \* session-store.js:13   let redisClient = null
    isRedisEnabled,  \* session-store.js:14   let isRedisEnabled = false
    memorySessions,  \* session-store.js:15   const memorySessions = new Map()
    redisKeys,       \* the Redis keyspace: key -> [value, expireAt]
    initPc,          \* where initSessionStore is
    calls,           \* session-store calls awaiting a Redis reply, in issue order
    last,            \* the session-store call that returned last, with its result
    issued,          \* tokens returned by createSession, with the session stored
    destroyed,       \* tokens for which a destroySession call has returned
    dbPc,            \* where initDatabase is
    databaseUrl,     \* part_002:34   const databaseUrl, once read
    created,         \* the statements of initDatabase that have succeeded
    pool,            \* part_002:11   let pool = null
    isDbEnabled,     \* part_002:12   let isDbEnabled = false
    accountsFile,    \* the content of ACCOUNTS_FILE, absent or an array
    accountsTable,   \* the committed rows of table accounts, by id
    nextId,          \* the next value of the SERIAL id of table accounts
    save,            \* the saveAccounts call of each caller
    loaded,          \* the loadAccounts call that returned last, while no
                     \* saveAccounts call has started since
    lastSaved,       \* the saveAccounts call that returned true last, while
                     \* no saveAccounts call has started since
    savedNames,      \* for each scope, the names of the accounts of the last
                     \* saveAccounts call for that scope that returned true
    usersFile,       \* the content of USERS_FILE, absent or an array
    usersTable,      \* the rows of table users, by id
    nextUserId,      \* the next value of the SERIAL id of table users
    webhooksFile,    \* the content of WEBHOOKS_FILE, absent or an array
    webhooksTable,   \* the rows of table webhooks, by id
    hook,            \* the saveWebhook call of each caller
    ended,           \* the call on users or webhooks that ended last
    usageFile,       \* the content of USAGE_HISTORY_FILE, absent or an array
    usageTable,      \* the rows of table usage_history, in the order of their id
    usageRet,        \* the getUsageHistory call that returned last
    passwordFile,    \* the password of PASSWORD_FILE, absent or a string
    configPassword,  \* the value of row admin_password of table config
    auth,            \* the request on the admin password that was handled last
    util,            \* the last verifyPassword call and the last isHashed call
    reg,             \* the addWebhook / removeWebhook call that returned last
    counted          \* the getActiveSessionCount call that returned last

notifyVars  == <<webhookConfigs, sw, tw>>
sessionVars == <<now, redisUrl, redisPing, redisClient, isRedisEnabled,
                 memorySessions, redisKeys, initPc, calls, last, issued, destroyed>>
dbVars == <<dbPc, pool, isDbEnabled, databaseUrl, created, accountsFile, accountsTable, nextId, save,
            loaded, lastSaved, savedNames>>
userVars == <<usersFile, usersTable, nextUserId, webhooksFile, webhooksTable,
              hook, ended>>
usageVars == <<usageFile, usageTable, usageRet>>
passwordVars == <<passwordFile, configPassword, auth, util>>
registryVars == <<reg, counted>>
storeVars == <<userVars, usageVars, passwordVars, registryVars>>
vars == <<notifyVars, sessionVars, dbVars, storeVars>>

-----------------------------------------------------------------------------
(* Options (undefined / a value) and sequence helpers.                      *)

None == {}
Some(x) == {x}
Get(o) == CHOOSE x \in o : TRUE

Range(s) == {s[i] : i \in DOMAIN s}

RECURSIVE CountIf(_, _)
\* Array.prototype.filter(...).length for a test given as a set of accepted values.
CountIf(s, accepted) ==
    IF s = <<>> THEN 0
    ELSE (IF Head(s) \in accepted THEN 1 ELSE 0) + CountIf(Tail(s), accepted)

\* Maps (a JavaScript Map, the Redis keyspace) are functions on their keys.
EmptyMap == [k \in {} |-> k]
Put(m, k, v) == [x \in DOMAIN m \cup {k} |-> IF x = k THEN v ELSE m[x]]
\* A delete that removes nothing (what Map.delete and DEL must not be).
DeleteNothing(m, k) == m
\* session-store.js:118 Map.prototype.delete, session-store.js:116 DEL
Delete(m, k) == [x \in DOMAIN m \ {k} |-> m[x]]

-----------------------------------------------------------------------------
(* Bounds of the model.                                                     *)

MaxHooks   == 2    \* registrations held at once
MaxTokens  == 2    \* sessions created in one run
MaxPending == 2    \* session-store calls awaiting a Redis reply at once
MaxTicks   == 2    \* advances of the clock in one run
MaxSavers  == 2    \* callers of saveAccounts
MaxRows    == 3    \* rows inserted into table accounts in one run
MaxUsers   == 3    \* values drawn from the SERIAL id of table users
MaxRecords == 2    \* recordUsage calls in one run
MaxDaySteps == 2   \* advances of the clock of the usage history in one run

-----------------------------------------------------------------------------
(* notifications.js: the inputs.                                            *)

\* notifications.js:11-19
EVENTS ==
    {"quota_warning", "quota_exceeded", "service_down", "service_error",
     "login_failed", "account_added", "account_removed"}

\* The event types the callers fire in the model.
SentEvents == {"service_down", "login_failed", "account_added"}

UrlHttps == "https://hooks.example/a"
UrlHttp  == "http://hooks.example:8080/b?x=1"
UrlBad   == "not a url"

\* new URL(s): the components of a string that parses, nothing for one that
\* does not (the constructor throws TypeError: Invalid URL).
ParseURL(s) ==
    IF s = UrlHttps
    THEN Some([protocol |-> "https:", hostname |-> "hooks.example", port |-> "",
               pathname |-> "/a", search |-> ""])
    ELSE IF s = UrlHttp
    THEN Some([protocol |-> "http:", hostname |-> "hooks.example", port |-> "8080",
               pathname |-> "/b", search |-> "?x=1"])
    ELSE None

\* The configurations handed to addWebhook / setWebhookConfigs: { url, events,
\* secret, name }.  events is absent, [] or a list; secret is absent, "" or a key.
HookA == [name |-> "A", url |-> UrlHttps, secret |-> Some("k1"),
          events |-> Some(<<"service_down">>)]
HookB == [name |-> "B", url |-> UrlHttp, secret |-> None,
          events |-> Some(<<>>)]
HookC == [name |-> "C", url |-> UrlHttps, secret |-> Some(""),
          events |-> None]
HookD == [name |-> "D", url |-> UrlBad, secret |-> Some("k1"),
          events |-> Some(<<"quota_warning", "login_failed">>)]
ConfigInputs == {HookA, HookB, HookC, HookD}

\* A configuration that carries an id of its own, as a stored webhook does.
OwnId == 9
HookE == [id |-> OwnId, name |-> "E", url |-> UrlHttps, secret |-> None,
          events |-> None]

\* { id, ...config }: the properties of config are spread after id, so a config
\* that has an id of its own keeps it.
WithId(config, id) ==
    [id |-> IF "id" \in DOMAIN config THEN config.id ELSE id, name |-> config.name, url |-> config.url,
     secret |-> config.secret, events |-> config.events]

\* The arrays handed to setWebhookConfigs: null, and the registrations A, B.
ConfigArrays == {None, Some(<<WithId(HookA, 1), WithId(HookB, 2)>>)}

-----------------------------------------------------------------------------
(* notifications.js: the registry.                                          *)

\* notifications.js:28-30   webhookConfigs = configs || []
setWebhookConfigs(configs) ==
    IF configs = None THEN <<>> ELSE Get(configs)

\* crypto.randomBytes(8).toString('hex'): an id no stored registration has.
\* Random ids are interchangeable, so the least free one stands for all.
FreshId(configs) ==
    CHOOSE id \in 1..(Len(configs) + 1) :
        /\ id \notin {configs[i].id : i \in DOMAIN configs}
        /\ \A j \in 1..(id - 1) : j \in {configs[i].id : i \in DOMAIN configs}

\* notifications.js:43-47   push({ id, ...config, createdAt }); return id
\* (createdAt is read by nothing in the module and is left out).
addWebhook(configs, config, id) == Append(configs, WithId(config, id))

\* notifications.js:54   findIndex(w => w.id === id), 0 for -1
FindIndex(configs, id) ==
    IF \E i \in DOMAIN configs : configs[i].id = id
    THEN CHOOSE i \in DOMAIN configs :
            /\ configs[i].id = id
            /\ \A j \in 1..(i - 1) : configs[j].id # id
    ELSE 0

\* A removeWebhook that splices without looking at the index: splice(-1, 1)
\* removes the last registration.
removeWebhookUnguarded(configs, id) ==
    LET index == FindIndex(configs, id) IN
    IF configs = <<>> THEN configs
    ELSE [i \in 1..(Len(configs) - 1) |->
             IF index = 0 \/ i < index THEN configs[i] ELSE configs[i + 1]]

\* notifications.js:53-60   splice(index, 1)
removeWebhook(configs, id) ==
    LET index == FindIndex(configs, id) IN
    IF index # 0
    THEN [i \in 1..(Len(configs) - 1) |->
             IF i < index THEN configs[i] ELSE configs[i + 1]]
    ELSE configs

-----------------------------------------------------------------------------
(* notifications.js: one delivery, sendToWebhook.                           *)

\* JSON.stringify({ event, timestamp, data }): a string, here the sequence of
\* its parts.  Distinct envelopes serialize to distinct strings.
Stringify(event, timestamp, data) == <<"{event:", event, ",timestamp:", timestamp, ",data:", data, "}">>

\* A property read on a string primitive: payload.event at line 112 reads the
\* property "event" of the serialized string, which no string has.
StringProperty(str, name) == None

\* Buffer.byteLength(payload)
ByteLength(payload) == Len(payload)

\* Mutant: the key is dropped from the HMAC.
generateSignatureUnkeyed(payload, secret) == <<"hmac-sha256", "", payload>>

\* notifications.js:67-69   HMAC-SHA-256 of payload under secret, hex
generateSignature(payload, secret) == <<"hmac-sha256", secret, payload>>

\* JavaScript truthiness of an optional string: undefined and "" are falsy.
TruthyString(o) == o # None /\ Get(o) # ""

\* notifications.js:108-118   the headers object
RequestHeaders(config, payload) ==
    LET names == {"Content-Type", "Content-Length", "User-Agent", "X-Webhook-Event"}
                 \cup (IF TruthyString(config.secret)
                       THEN {"X-Webhook-Signature"} ELSE {})
    IN [h \in names |->
          CASE h = "Content-Type"        -> Some("application/json")
            [] h = "Content-Length"      -> Some(ByteLength(payload))
            [] h = "User-Agent"          -> Some("Zeabur-Monitor-Webhook/2.0")
            [] h = "X-Webhook-Event"     -> StringProperty(payload, "event")
            [] h = "X-Webhook-Signature" ->
                   Some(generateSignature(payload, Get(config.secret)))]

\* notifications.js:126
WEBHOOK_TIMEOUT == 10000

\* notifications.js:120-127   the options object
RequestOptions(url, headers) ==
    LET isHttps == url.protocol = "https:" IN
    [client   |-> IF isHttps THEN "https" ELSE "http",
     hostname |-> url.hostname,
     port     |-> IF url.port # "" THEN url.port
                  ELSE IF isHttps THEN "443" ELSE "80",
     path     |-> <<url.pathname, url.search>>,
     method   |-> "POST",
     headers  |-> headers,
     timeout  |-> WEBHOOK_TIMEOUT]

\* notifications.js:129   client.request(options, cb).  The ClientRequest
\* constructor passes every entry of options.headers to setHeader, which
\* throws ERR_HTTP_INVALID_HEADER_VALUE for a value that is undefined; no socket
\* is opened and no request object exists after the throw.
RequestThrows(options) ==
    \E h \in DOMAIN options.headers : options.headers[h] = None

Attempt(config, payload, options, body, state, error) ==
    [config |-> config, payload |-> payload, options |-> options, body |-> body,
     state |-> state, error |-> error]

\* Mutant: the URL is parsed and the request created outside the executor's
\* reach (in a later callback), so a throw settles nothing.
sendToWebhookLostThrow(config, payload) ==
    Attempt(config, payload, None, None, "pending", "")

\* notifications.js:102-150   the promise sendToWebhook returns, as it stands
\* when the executor has run.  An exception thrown in the executor (new URL at
\* line 104, client.request at line 129) rejects the promise.  A request that
\* is created is written (lines 147-148) and the promise stays pending until
\* the response ends, an error or the socket timeout (lines 129-145).
sendToWebhook(config, payload) ==
    LET url == ParseURL(config.url) IN
    IF url = None
    THEN Attempt(config, payload, None, None, "rejected", "Invalid URL")
    ELSE LET options == RequestOptions(Get(url), RequestHeaders(config, payload)) IN
         IF RequestThrows(options)
         THEN Attempt(config, payload, Some(options), None, "rejected",
                      "Invalid value \"undefined\" for header \"X-Webhook-Event\"")
         ELSE Attempt(config, payload, Some(options), Some(payload), "pending", "")

-----------------------------------------------------------------------------
(* notifications.js: sendWebhook.                                           *)

\* Mutant: the events filter is lost.
MatchesAny(config, event) == TRUE

\* notifications.js:85   !config.events || config.events.includes(event)
\* (an array, also the empty one, is truthy).
Matches(config, event) ==
    \/ config.events = None
    \/ event \in Range(Get(config.events))

RECURSIVE Filter(_, _)
\* notifications.js:84-85   webhookConfigs.filter(...)
Filter(configs, event) ==
    IF configs = <<>> THEN <<>>
    ELSE (IF Matches(Head(configs), event) THEN <<Head(configs)>> ELSE <<>>)
         \o Filter(Tail(configs), event)

\* Mutant: a rejected delivery is tried a second time.
MapSendRetry(targets, payload) ==
    [i \in 1..(2 * Len(targets)) |-> sendToWebhook(targets[(i + 1) \div 2], payload)]

\* notifications.js:86   .map(config => sendToWebhook(config, payload))
MapSend(targets, payload) ==
    [i \in DOMAIN targets |-> sendToWebhook(targets[i], payload)]

\* Mutant: Promise.all, which rejects with the first rejection.
AllFailFast(attempts) ==
    [ready   |-> \/ \E i \in DOMAIN attempts : attempts[i].state = "rejected"
                 \/ \A i \in DOMAIN attempts : attempts[i].state # "pending",
     raised  |-> \E i \in DOMAIN attempts : attempts[i].state = "rejected",
     results |-> [i \in DOMAIN attempts |-> attempts[i].state]]

\* notifications.js:83   await Promise.allSettled(promises) resumes when no
\* promise is pending, with one result per promise, and never rejects.
AllSettled(attempts) ==
    [ready   |-> \A i \in DOMAIN attempts : attempts[i].state # "pending",
     raised  |-> FALSE,
     results |-> [i \in DOMAIN attempts |-> attempts[i].state]]

\* notifications.js:89-96   the counts returned
Counts(results) ==
    [success |-> CountIf(results, {"fulfilled"}),
     failed  |-> CountIf(results, {"rejected"})]

IdleCall == [pc |-> "idle", event |-> "", payload |-> <<>>, attempts |-> <<>>,
             ret |-> None]

Timestamps == {"T1", "T2"}     \* new Date().toISOString()
DataInputs == {"d1"}           \* the data argument of sendWebhook

\* notifications.js:76-87   sendWebhook up to its await: the envelope is
\* serialized once, the registry is filtered and every delivery is started.
sendWebhookStart(configs, event, timestamp, data) ==
    LET payload == Stringify(event, timestamp, data) IN
    [pc |-> "awaiting", event |-> event, payload |-> payload,
     attempts |-> MapSend(Filter(configs, event), payload), ret |-> None]

\* notifications.js:83-96   sendWebhook from its await on
sendWebhookReturn(call) ==
    LET join == AllSettled(call.attempts) IN
    [call EXCEPT !.pc = "done",
                 !.ret = Some(IF join.raised
                              THEN [kind |-> "raised", success |-> 0, failed |-> 0]
                              ELSE [kind |-> "returned",
                                    success |-> Counts(join.results).success,
                                    failed |-> Counts(join.results).failed])]

\* notifications.js:200-209   testWebhook up to its await
testWebhookStart(url, secret, timestamp) ==
    LET config == [url |-> url, secret |-> secret]
        payload == Stringify("test", timestamp, "test message")
    IN [pc |-> "awaiting", event |-> "test", payload |-> payload,
        attempts |-> <<sendToWebhook(config, payload)>>, ret |-> None]

\* Mutant: no try/catch around the await.
testWebhookReturnNoCatch(call) ==
    LET attempt == call.attempts[1] IN
    [call EXCEPT !.pc = "done",
                 !.ret = Some(IF attempt.state = "fulfilled"
                              THEN [kind |-> "returned", success |-> TRUE, error |-> ""]
                              ELSE [kind |-> "raised", success |-> FALSE,
                                    error |-> attempt.error])]

\* notifications.js:208-213   try { ... return { success: true, ...result } }
\* catch (error) { return { success: false, error: error.message } }
testWebhookReturn(call) ==
    LET attempt == call.attempts[1] IN
    [call EXCEPT !.pc = "done",
                 !.ret = Some(IF attempt.state = "fulfilled"
                              THEN [kind |-> "returned", success |-> TRUE, error |-> ""]
                              ELSE [kind |-> "returned", success |-> FALSE,
                                    error |-> attempt.error])]

TestUrls == {UrlHttps, UrlBad}
TestSecrets == {None, Some("k1")}

-----------------------------------------------------------------------------
(* notifications.js: the actions.                                           *)

SetWebhookConfigs(configs) ==
    /\ webhookConfigs' = setWebhookConfigs(configs)
    /\ UNCHANGED <<sw, tw, sessionVars, dbVars, storeVars>>

AddWebhook(config) ==
    /\ Len(webhookConfigs) < MaxHooks
    /\ webhookConfigs' = addWebhook(webhookConfigs, config, FreshId(webhookConfigs))
    /\ UNCHANGED <<sw, tw, sessionVars, dbVars, storeVars>>

RemoveWebhook(id) ==
    /\ webhookConfigs' = removeWebhook(webhookConfigs, id)
    /\ UNCHANGED <<sw, tw, sessionVars, dbVars, storeVars>>

\* A call that returned: what it was given, what it returned, and the
\* registrations before it.
Registered(op, arg, ret, before) ==
    [op |-> op, arg |-> arg, ret |-> ret, before |-> before]

\* notifications.js:43-47   addWebhook, with the id it returns
AddWebhookReturning(config) ==
    /\ Len(webhookConfigs) < MaxHooks
    /\ LET id == FreshId(webhookConfigs) IN
         /\ webhookConfigs' = addWebhook(webhookConfigs, config, id)
         /\ reg' = Registered("addWebhook", Some(config), Some(id), webhookConfigs)
    /\ UNCHANGED <<sw, tw, counted, sessionVars, dbVars, userVars, usageVars,
                   passwordVars>>

\* notifications.js:53-60   removeWebhook, with the boolean it returns
RemoveWebhookReturning(id) ==
    /\ webhookConfigs' = removeWebhook(webhookConfigs, id)
    /\ reg' = Registered("removeWebhook", Some(id),
                         Some(FindIndex(webhookConfigs, id) # 0), webhookConfigs)
    /\ UNCHANGED <<sw, tw, counted, sessionVars, dbVars, userVars, usageVars,
                   passwordVars>>

InitRegistry ==
    /\ reg = Registered("none", None, None, <<>>)
    /\ counted = [op |-> "none", ret |-> 0, stored |-> {}, expired |-> {},
                  mode |-> ""]

SendWebhookStart(event, timestamp, data) ==
    /\ sw.pc # "awaiting"
    /\ sw' = sendWebhookStart(webhookConfigs, event, timestamp, data)
    /\ UNCHANGED <<webhookConfigs, tw, sessionVars, dbVars, storeVars>>

SendWebhookReturn ==
    /\ sw.pc = "awaiting"
    /\ AllSettled(sw.attempts).ready
    /\ sw' = sendWebhookReturn(sw)
    /\ UNCHANGED <<webhookConfigs, tw, sessionVars, dbVars, storeVars>>

TestWebhookStart(url, secret, timestamp) ==
    /\ tw.pc # "awaiting"
    /\ tw' = testWebhookStart(url, secret, timestamp)
    /\ UNCHANGED <<webhookConfigs, sw, sessionVars, dbVars, storeVars>>

TestWebhookReturn ==
    /\ tw.pc = "awaiting"
    /\ tw.attempts[1].state # "pending"
    /\ tw' = testWebhookReturn(tw)
    /\ UNCHANGED <<webhookConfigs, sw, sessionVars, dbVars, storeVars>>

-----------------------------------------------------------------------------
(* session-store.js: the store.                                             *)

\* session-store.js:9   10 days, in milliseconds
SESSION_DURATION == 10 * 24 * 60 * 60 * 1000

\* session-store.js:70   Math.floor(SESSION_DURATION / 1000), the SETEX seconds
SessionTtlSeconds == SESSION_DURATION \div 1000

\* The clock of the model (now, createdAt, expiresAt, expireAt) counts seconds:
\* a few session lifetimes in milliseconds do not fit TLC's 32-bit integers.
Seconds(ms) == ms \div 1000

\* process.env.REDIS_URL: unset, or the url of a Redis server.
RedisUrls == {None, Some("redis://cache:6379")}

\* The outcome of the connectivity check: an answer, or a connection error.
PingReplies == {"PONG", "error"}

\* The userId argument of createSession: undefined, or a user.
UserIdInputs == {None, Some("user123")}

\* A token no stored or known session has (the stand-in for an invalid token).
UnknownToken == MaxTokens + 1

\* session-store.js:59   userId = 'admin'
DefaultUserId(userId) == IF userId = None THEN "admin" ELSE Get(userId)

\* session-store.js:61-65   the session object; the clock is read twice and
\* may advance by gap between the two reads.
NewSession(userId, createdAt, gap) ==
    [userId    |-> DefaultUserId(userId),
     createdAt |-> createdAt,
     expiresAt |-> createdAt + gap + Seconds(SESSION_DURATION)]

\* session-store.js:71   JSON.stringify(session)
SerializeSession(session) ==
    <<"{userId:", session.userId, ",createdAt:", session.createdAt,
      ",expiresAt:", session.expiresAt, "}">>

\* session-store.js:93   JSON.parse(data)
ParseSession(data) ==
    [userId |-> data[2], createdAt |-> data[4], expiresAt |-> data[6]]

\* session-store.js:67, 90, 115, 140   isRedisEnabled && redisClient
UseRedis == isRedisEnabled /\ redisClient # None

\* The Redis keyspace at time t: a key set with SETEX is gone once the clock
\* has passed its expiry.
LiveKeys(keys, t) ==
    [k \in {x \in DOMAIN keys : t <= keys[x].expireAt} |-> keys[k]]

\* An expiry test that already fails a session at its expiresAt.
ExpiredAtDeadline(session, t) == t >= session.expiresAt
\* session-store.js:102   Date.now() > session.expiresAt
Expired(session, t) == t > session.expiresAt

\* crypto.randomBytes(32): a token never generated before.  Random tokens are
\* interchangeable, so the least unused one stands for all.
PendingTokens == {calls[i].token : i \in {j \in DOMAIN calls : calls[j].for = "create"}}
FreshToken == Cardinality(DOMAIN issued \cup PendingTokens) + 1

\* What a call handed back to its caller.
Returned(op, token, session, why, at) ==
    [op |-> op, token |-> token, session |-> session, why |-> why, at |-> at,
     wasDestroyed |-> token \in destroyed, raised |-> FALSE]
NoCall == [op |-> "none", token |-> UnknownToken, session |-> None, why |-> "",
           at |-> 0, wasDestroyed |-> FALSE, raised |-> FALSE]

\* A command sent to Redis on behalf of a call; replies come back in the order
\* the commands were sent (one connection).
Command(cmd, for, token, userId, session) ==
    [cmd |-> cmd, for |-> for, token |-> token, userId |-> userId,
     session |-> session]

\* What createSession was called with and what it stored, kept for the token
\* it returned.
Issued(userId, session) == [userId |-> userId, session |-> session]

\* The clock may advance by d: at most MaxTicks advances in one run.
CanTick(d) ==
    d > 0 => (now % Seconds(SESSION_DURATION))
                + (now \div Seconds(SESSION_DURATION)) < MaxTicks

-----------------------------------------------------------------------------
(* session-store.js: the actions.                                           *)

\* session-store.js:20-33   initSessionStore up to await redisClient.ping()
InitSessionStoreStart(url) ==
    /\ initPc = "start"
    /\ redisUrl' = url
    /\ IF url = None
       THEN /\ initPc' = "done"
            /\ UNCHANGED redisClient
       ELSE /\ redisClient' = Some("ioredis")
            /\ initPc' = "pinging"
    /\ UNCHANGED <<now, redisPing, isRedisEnabled, memorySessions,
                   redisKeys, calls, last, issued, destroyed, notifyVars, dbVars, storeVars>>

\* session-store.js:35-44   initSessionStore from the answer to ping()
InitSessionStorePing(reply) ==
    /\ initPc = "pinging"
    /\ redisPing' = reply
    /\ IF reply = "PONG"
       THEN /\ isRedisEnabled' = TRUE
            /\ UNCHANGED redisClient
       ELSE /\ redisClient' = None
            /\ UNCHANGED isRedisEnabled
    /\ initPc' = "done"
    /\ UNCHANGED <<now, redisUrl, memorySessions, redisKeys, calls,
                   last, issued, destroyed, notifyVars, dbVars, storeVars>>

\* session-store.js:59-78   createSession up to its return (memory) or up to
\* await redisClient.setex (Redis)
CreateSession(userId, gap) ==
    /\ FreshToken <= MaxTokens
    /\ CanTick(gap)
    /\ now' = now + gap
    /\ LET token == FreshToken
           session == NewSession(userId, now, gap)
       IN IF UseRedis
          THEN /\ Len(calls) < MaxPending
               /\ calls' = Append(calls, Command("setex", "create", token, userId,
                                                Some(session)))
               /\ UNCHANGED <<memorySessions, last, issued>>
          ELSE /\ memorySessions' = Put(memorySessions, token, session)
               /\ last' = Returned("create", token, Some(session), "created", now + gap)
               /\ issued' = Put(issued, token, Issued(userId, session))
               /\ UNCHANGED calls
    /\ redisKeys' = LiveKeys(redisKeys, now')
    /\ UNCHANGED <<redisUrl, redisPing, redisClient, isRedisEnabled, initPc,
                   destroyed, notifyVars, dbVars, storeVars>>

\* session-store.js:114-120   destroySession, called by validateSession at
\* line 103 or by a caller: the memory branch deletes at once, the Redis branch
\* sends DEL and awaits the reply.  rest is the queue of commands in flight.
DestroyFor(for, token, rest) ==
    IF UseRedis
    THEN /\ calls' = Append(rest, Command("del", for, token, None, None))
         /\ UNCHANGED <<memorySessions, last, destroyed>>
    ELSE /\ memorySessions' = Delete(memorySessions, token)
         /\ calls' = rest
         /\ IF for = "validate"
            THEN /\ last' = Returned("validate", token, None, "expired", now)
                 /\ UNCHANGED destroyed
            ELSE /\ last' = Returned("destroy", token, None, "destroyed", now)
                 /\ destroyed' = destroyed \cup {token}

\* A validateSession that answers a token it does not find with a new session.
ValidateFoundAdmitsUnknown(token, session, rest) ==
    /\ last' = Returned("validate", token,
                        IF session = None
                        THEN Some(NewSession(None, now, 0)) ELSE session,
                        "valid", now)
    /\ calls' = rest
    /\ UNCHANGED <<memorySessions, destroyed>>

\* A validateSession without the expiry test of lines 102-105.
ValidateFoundNoExpiry(token, session, rest) ==
    /\ last' = Returned("validate", token, session,
                        IF session = None THEN "unknown" ELSE "valid", now)
    /\ calls' = rest
    /\ UNCHANGED <<memorySessions, destroyed>>

\* session-store.js:99-107   validateSession from `if (!session)` on, with the
\* session read from the store (undefined when there is none)
ValidateFound(token, session, rest) ==
    IF session = None
    THEN /\ last' = Returned("validate", token, None, "unknown", now)
         /\ calls' = rest
         /\ UNCHANGED <<memorySessions, destroyed>>
    ELSE IF Expired(Get(session), now)
    THEN DestroyFor("validate", token, rest)
    ELSE /\ last' = Returned("validate", token, session, "valid", now)
         /\ calls' = rest
         /\ UNCHANGED <<memorySessions, destroyed>>

\* session-store.js:85-97   validateSession up to the read of the store: a
\* falsy token returns null, the memory branch reads the map, the Redis branch
\* sends GET and awaits the reply.
ValidateSession(token) ==
    /\ IF token = None
       THEN /\ last' = Returned("validate", UnknownToken, None, "empty", now)
            /\ UNCHANGED <<memorySessions, calls, destroyed>>
       ELSE IF UseRedis
       THEN /\ Len(calls) < MaxPending
            /\ calls' = Append(calls, Command("get", "validate", Get(token), None, None))
            /\ UNCHANGED <<memorySessions, last, destroyed>>
       ELSE ValidateFound(Get(token),
                          IF Get(token) \in DOMAIN memorySessions
                          THEN Some(memorySessions[Get(token)]) ELSE None,
                          calls)
    /\ UNCHANGED <<now, redisUrl, redisPing, redisClient, isRedisEnabled,
                   redisKeys, initPc, issued, notifyVars, dbVars, storeVars>>

\* session-store.js:114-120   destroySession called by a caller
DestroySession(token) ==
    /\ UseRedis => Len(calls) < MaxPending
    /\ DestroyFor("destroy", token, calls)
    /\ UNCHANGED <<now, redisUrl, redisPing, redisClient, isRedisEnabled,
                   redisKeys, initPc, issued, notifyVars, dbVars, storeVars>>

\* The Redis server executes the oldest command in flight and the call that
\* awaits its reply resumes: createSession at line 77, validateSession at line
\* 92 or 104, destroySession at line 117.
RedisReply ==
    /\ calls # <<>>
    /\ Head(calls).cmd # "keys"
    /\ LET c == Head(calls)
           rest == Tail(calls)
           keys == LiveKeys(redisKeys, now)
       IN CASE c.cmd = "setex" ->
                 /\ redisKeys' = Put(keys, c.token,
                                     [value |-> SerializeSession(Get(c.session)),
                                      expireAt |-> now + SessionTtlSeconds])
                 /\ calls' = rest
                 /\ last' = Returned("create", c.token, c.session, "created", now)
                 /\ issued' = Put(issued, c.token, Issued(c.userId, Get(c.session)))
                 /\ UNCHANGED <<memorySessions, destroyed>>
            [] c.cmd = "get" ->
                 /\ redisKeys' = keys
                 /\ ValidateFound(c.token,
                                  IF c.token \in DOMAIN keys
                                  THEN Some(ParseSession(keys[c.token].value)) ELSE None,
                                  rest)
                 /\ UNCHANGED issued
            [] c.cmd = "del" ->
                 /\ redisKeys' = Delete(keys, c.token)
                 /\ calls' = rest
                 /\ IF c.for = "validate"
                    THEN /\ last' = Returned("validate", c.token, None, "expired", now)
                         /\ UNCHANGED destroyed
                    ELSE /\ last' = Returned("destroy", c.token, None, "destroyed", now)
                         /\ destroyed' = destroyed \cup {c.token}
                 /\ UNCHANGED <<memorySessions, issued>>
    /\ UNCHANGED <<now, redisUrl, redisPing, redisClient, isRedisEnabled,
                   initPc, notifyVars, dbVars, storeVars>>

\* A count of the sessions in memory that leaves the expired ones out.
CountUnexpiredInMemory(map, t) ==
    Cardinality({x \in DOMAIN map : ~Expired(map[x], t)})

\* session-store.js:144   memorySessions.size
CountInMemory(map, t) == Cardinality(DOMAIN map)

\* session-store.js:141-142   redisClient.keys(SESSION_PREFIX + '*').length
CountInRedis(keys, t) == Cardinality(DOMAIN LiveKeys(keys, t))

\* What getActiveSessionCount returned, with the tokens stored in the store it
\* read and those of them past their expiresAt at that time.
Counted(ret, stored, expired, mode) ==
    [op |-> "count", ret |-> ret, stored |-> stored, expired |-> expired,
     mode |-> mode]

\* session-store.js:139-145   getActiveSessionCount up to its return (memory)
\* or up to await redisClient.keys (Redis)
GetActiveSessionCount ==
    /\ IF UseRedis
       THEN /\ Len(calls) < MaxPending
            /\ calls' = Append(calls, Command("keys", "count", UnknownToken, None, None))
            /\ UNCHANGED counted
       ELSE /\ counted' = Counted(CountInMemory(memorySessions, now),
                                  DOMAIN memorySessions,
                                  {x \in DOMAIN memorySessions :
                                      Expired(memorySessions[x], now)},
                                  "memory")
            /\ UNCHANGED calls
    /\ UNCHANGED <<now, redisUrl, redisPing, redisClient, isRedisEnabled,
                   memorySessions, redisKeys, initPc, last, issued, destroyed, reg,
                   notifyVars, dbVars, userVars, usageVars, passwordVars>>

\* The Redis server executes KEYS session:* and getActiveSessionCount resumes
\* at line 142.
RedisReplyKeys ==
    /\ calls # <<>>
    /\ Head(calls).cmd = "keys"
    /\ calls' = Tail(calls)
    /\ redisKeys' = LiveKeys(redisKeys, now)
    /\ counted' = Counted(CountInRedis(redisKeys, now),
                          DOMAIN LiveKeys(redisKeys, now), {}, "redis")
    /\ UNCHANGED <<now, redisUrl, redisPing, redisClient, isRedisEnabled,
                   memorySessions, initPc, last, issued, destroyed, reg,
                   notifyVars, dbVars, userVars, usageVars, passwordVars>>

\* A cleanExpiredSessions without the return of line 126.
CleanExpiredSessionsInEveryMode ==
    /\ memorySessions' =
           [t \in {x \in DOMAIN memorySessions : ~Expired(memorySessions[x], now)}
               |-> memorySessions[t]]
    /\ UNCHANGED <<now, redisUrl, redisPing, redisClient, isRedisEnabled,
                   redisKeys, initPc, calls, last, issued, destroyed, notifyVars, dbVars, storeVars>>

\* session-store.js:125-134   cleanExpiredSessions, run by the timer of line 166
CleanExpiredSessions ==
    /\ IF isRedisEnabled
       THEN UNCHANGED memorySessions
       ELSE memorySessions' =
               [t \in {x \in DOMAIN memorySessions : ~Expired(memorySessions[x], now)}
                   |-> memorySessions[t]]
    /\ UNCHANGED <<now, redisUrl, redisPing, redisClient, isRedisEnabled,
                   redisKeys, initPc, calls, last, issued, destroyed, notifyVars, dbVars, storeVars>>

\* Time passes: one unit, or the ten days of a session.
ClockSteps == {1, Seconds(SESSION_DURATION)}
Tick(d) ==
    /\ CanTick(d)
    /\ now' = now + d
    /\ redisKeys' = LiveKeys(redisKeys, now')
    /\ UNCHANGED <<redisUrl, redisPing, redisClient, isRedisEnabled,
                   memorySessions, initPc, calls, last, issued, destroyed, notifyVars, dbVars, storeVars>>

\* The tokens a caller can present: those it was given, and an invalid one.
KnownTokens == DOMAIN issued \cup {UnknownToken}

\* session-store.js:150-156   closeSessionStore, while no command awaits its
\* reply; a quit() that rejects (ok is false) leaves redisClient and
\* isRedisEnabled as they are
CloseSessionStore(ok) ==
    /\ calls = <<>>
    /\ IF redisClient # None /\ ok
       THEN redisClient' = None /\ isRedisEnabled' = FALSE
       ELSE UNCHANGED <<redisClient, isRedisEnabled>>
    /\ UNCHANGED <<now, redisUrl, redisPing, memorySessions, redisKeys, initPc,
                   calls, last, issued, destroyed, notifyVars, dbVars, storeVars>>

-----------------------------------------------------------------------------
(* db.js (part_002): accounts.                                              *)

\* The userId argument of loadAccounts and saveAccounts: null, or a user.
Scopes == {None, Some(1)}

\* The secret argument: two keys.
Secrets == {"k1", "k2"}

\* A token on which the caller's encryptFn throws.
UnencryptableTokens == {"t9"}

\* encryptFn(token, secret) throws
EncryptThrows(token, secret) == token \in UnencryptableTokens
\* encryptFn(token, secret): the ciphertext of token under secret
encryptFn(token, secret) == <<"enc", secret, token>>

\* decryptFn(ciphertext, secret) throws: the ciphertext is not one of secret
DecryptThrows(ciphertext, secret) == ciphertext[2] # secret
\* decryptFn(ciphertext, secret): the token that was encrypted
decryptFn(ciphertext, secret) == ciphertext[3]

\* An account object: fields that are absent or undefined are None.
Account(name, token, encryptedToken) ==
    [name |-> name, token |-> token, encryptedToken |-> encryptedToken]

\* if (account.token), if (row.encrypted_token), if (userId)
Truthy(value) == value # None /\ Get(value) # ""

\* The accounts arrays callers save: plain accounts, one whose token cannot be
\* encrypted, and one that comes with a ciphertext field of its own.
AccountA == Account("a", Some("t1"), None)
AccountB == Account("b", Some("t2"), None)
AccountC == Account("c", Some("t9"), None)
AccountD == Account("d", Some("t4"), Some(<<"enc", "k1", "t0">>))
AccountLists ==
    {<<>>, <<AccountA>>, <<AccountB, AccountA>>, <<AccountC, AccountA>>,
     <<AccountD>>}

\* The encryption arguments of a call: disabled, or enabled with a key.
EncryptionArgs ==
    {[encryptionEnabled |-> FALSE, secret |-> ""]}
    \cup {[encryptionEnabled |-> TRUE, secret |-> k] : k \in Secrets}

\* part_002:139-141   isDatabaseEnabled
isDatabaseEnabled == isDbEnabled /\ pool # None

RECURSIVE MapSeq(_, _, _, _)
\* Array.prototype.map over accounts or rows, Op being applied with the
\* encryption arguments of the call
MapSeq(Op(_, _, _), list, encryptionEnabled, secret) ==
    IF list = <<>> THEN <<>>
    ELSE <<Op(Head(list), encryptionEnabled, secret)>>
         \o MapSeq(Op, Tail(list), encryptionEnabled, secret)

\* part_002:269-283   saveAccounts, file branch: the object written for one
\* account
FileRecord(account, encryptionEnabled, secret) ==
    IF encryptionEnabled /\ Truthy(account.token)
          /\ ~EncryptThrows(Get(account.token), secret)
    THEN [account EXCEPT !.token = None,
                         !.encryptedToken = Some(encryptFn(Get(account.token), secret))]
    ELSE account

\* part_002:188-203   loadAccounts, file branch: the object returned for one
\* stored object
FileAccount(account, encryptionEnabled, secret) ==
    IF encryptionEnabled /\ account.encryptedToken # None
          /\ ~DecryptThrows(Get(account.encryptedToken), secret)
    THEN [account EXCEPT !.token = Some(decryptFn(Get(account.encryptedToken), secret)),
                         !.encryptedToken = None]
    ELSE account

\* part_002:228-249   saveAccounts, relational branch: the row inserted for
\* one account, without its id
InsertedRow(account, encryptionEnabled, secret, userId) ==
    IF encryptionEnabled /\ Truthy(account.token)
          /\ ~EncryptThrows(Get(account.token), secret)
    THEN [user_id |-> userId, name |-> account.name, token |-> None,
          encrypted_token |-> Some(encryptFn(Get(account.token), secret))]
    ELSE [user_id |-> userId, name |-> account.name, token |-> account.token,
          encrypted_token |-> None]

\* A relational branch that never decrypts.
RowAccountClearOnly(row, encryptionEnabled, secret) ==
    Account(row.name, row.token, None)

\* part_002:164-175   loadAccounts, relational branch: the object returned
\* for one row
RowAccount(row, encryptionEnabled, secret) ==
    IF encryptionEnabled /\ row.encrypted_token # None
          /\ ~DecryptThrows(Get(row.encrypted_token), secret)
    THEN Account(row.name, Some(decryptFn(Get(row.encrypted_token), secret)), None)
    ELSE Account(row.name, row.token, None)

\* part_002:154-160   the WHERE clause of loadAccounts: every row when userId
\* is falsy, the rows of the user otherwise
Selected(row, userId) == userId # None => row.user_id = userId

\* part_002:221-225   the WHERE clause of the DELETE of saveAccounts
ToDelete(row, userId) == row.user_id = userId

RECURSIVE RowsInOrder(_, _)
\* ORDER BY id: the rows of a table with an id in ids, by ascending id
RowsInOrder(table, ids) ==
    IF ids = {} THEN <<>>
    ELSE LET first == CHOOSE id \in ids : \A other \in ids : id <= other
         IN <<table[first]>> \o RowsInOrder(table, ids \ {first})

\* A loadAccounts in which one failing decryption aborts the whole call, which
\* then returns the empty list.
loadAccountsAborting(encryptionEnabled, secret, userId) ==
    LET rows == RowsInOrder(accountsTable,
                            {id \in DOMAIN accountsTable :
                                Selected(accountsTable[id], userId)})
    IN IF isDatabaseEnabled
       THEN IF encryptionEnabled
               /\ \E i \in DOMAIN rows :
                     /\ rows[i].encrypted_token # None
                     /\ DecryptThrows(Get(rows[i].encrypted_token), secret)
            THEN <<>>
            ELSE MapSeq(RowAccount, rows, encryptionEnabled, secret)
       ELSE IF accountsFile = None THEN <<>>
       ELSE IF encryptionEnabled
       THEN MapSeq(FileAccount, Get(accountsFile), encryptionEnabled, secret)
       ELSE Get(accountsFile)

\* part_002:151-209   loadAccounts
loadAccounts(encryptionEnabled, secret, userId) ==
    IF isDatabaseEnabled
    THEN MapSeq(RowAccount,
                RowsInOrder(accountsTable,
                            {id \in DOMAIN accountsTable :
                                Selected(accountsTable[id], userId)}),
                encryptionEnabled, secret)
    ELSE IF accountsFile = None THEN <<>>
    ELSE IF encryptionEnabled
    THEN MapSeq(FileAccount, Get(accountsFile), encryptionEnabled, secret)
    ELSE Get(accountsFile)

\* process.env.DATABASE_URL: unset, or the url of a PostgreSQL server.
DatabaseUrls == {None, Some("postgres://db:5432/zeabur")}

\* The callers that may have a saveAccounts call in progress.
Callers == 1..MaxSavers

\* A saveAccounts call: its arguments, where it is, for the relational branch
\* the ids its DELETE saw, those it deleted and the rows it inserted, and what
\* it returned (raised: the promise was rejected).  The arguments are kept
\* after the return of a call that returned true only.
IdleSave ==
    [pc |-> "idle", accounts |-> <<>>, encryptionEnabled |-> FALSE, secret |-> "",
     userId |-> None, i |-> 1, snapshot |-> {}, deleted |-> {},
     inserted |-> EmptyMap, ret |-> None, raised |-> FALSE]

\* The names of the accounts of a list.
Names(list) == {list[i].name : i \in DOMAIN list}

\* The arguments of a saveAccounts call that returned true.
Saved(call) ==
    [accounts |-> call.accounts, encryptionEnabled |-> call.encryptionEnabled,
     secret |-> call.secret, userId |-> call.userId]

\* No loadAccounts call has returned yet.
NoLoad ==
    [op |-> "none", encryptionEnabled |-> FALSE, secret |-> "", userId |-> None,
     ret |-> <<>>, raised |-> FALSE]

\* part_002:49-55, 73-134   the statements initDatabase awaits, in order:
\* the probe, the search path, the five tables and the index
InitStatements ==
    <<"SELECT 1", "SET search_path", "users", "accounts", "config", "webhooks",
      "usage_history", "idx_usage_history_account">>

\* part_002:32-46   initDatabase up to await pool.query('SELECT 1'): without a
\* connection string it returns false; require('pg') or new Pool may throw
\* (ok is false), which the catch of lines 60-65 turns into false as well
InitDatabaseStart(url, ok) ==
    /\ dbPc = "start"
    /\ databaseUrl' = url
    /\ IF url # None /\ ok
       THEN pool' = Some("pg") /\ dbPc' = "querying"
       ELSE pool' = None /\ dbPc' = "done"
    /\ UNCHANGED <<isDbEnabled, created, accountsFile, accountsTable, nextId,
                   save, loaded, lastSaved, savedNames, notifyVars, sessionVars,
                   storeVars>>

\* An initDatabase that goes on to the next statement when one has failed.
InitDatabaseQueryIgnoresFailure(ok) ==
    /\ dbPc = "querying"
    /\ created' = IF ok THEN Append(created, InitStatements[Len(created) + 1])
                  ELSE Append(created, "failed")
    /\ IF Len(created') = Len(InitStatements)
       THEN isDbEnabled' = TRUE /\ dbPc' = "done"
       ELSE UNCHANGED <<isDbEnabled, dbPc>>
    /\ UNCHANGED <<pool, databaseUrl, accountsFile, accountsTable, nextId,
                   save, loaded, lastSaved, savedNames, notifyVars, sessionVars,
                   storeVars>>

\* part_002:49-65   initDatabase, one awaited statement: when it succeeds the
\* next one is sent, and after the last one isDbEnabled is set and true is
\* returned; when it fails the catch resets pool and false is returned
InitDatabaseQuery(ok) ==
    /\ dbPc = "querying"
    /\ IF ok
       THEN /\ created' = Append(created, InitStatements[Len(created) + 1])
            /\ IF Len(created') = Len(InitStatements)
               THEN isDbEnabled' = TRUE /\ dbPc' = "done"
               ELSE UNCHANGED <<isDbEnabled, dbPc>>
            /\ UNCHANGED pool
       ELSE /\ pool' = None
            /\ dbPc' = "done"
            /\ UNCHANGED <<isDbEnabled, created>>
    /\ UNCHANGED <<databaseUrl, accountsFile, accountsTable, nextId,
                   save, loaded, lastSaved, savedNames, notifyVars, sessionVars,
                   storeVars>>

\* part_002:619-625   closeDatabase; a pool.end() that rejects (ok is false)
\* leaves pool and isDbEnabled as they are
CloseDatabase(ok) ==
    /\ IF pool # None /\ ok
       THEN pool' = None /\ isDbEnabled' = FALSE
       ELSE UNCHANGED <<pool, isDbEnabled>>
    /\ UNCHANGED <<dbPc, databaseUrl, created, accountsFile, accountsTable,
                   nextId, save, loaded, lastSaved, savedNames, notifyVars,
                   sessionVars, storeVars>>

\* part_002:151-209   loadAccounts: one query, or one read of the file
LoadAccounts(encryptionEnabled, secret, userId) ==
    /\ loaded' = [op |-> "load", encryptionEnabled |-> encryptionEnabled,
                  secret |-> secret, userId |-> userId,
                  ret |-> loadAccounts(encryptionEnabled, secret, userId),
                  raised |-> FALSE]
    /\ UNCHANGED <<dbPc, pool, isDbEnabled, databaseUrl, created, accountsFile, accountsTable, nextId,
                   save, lastSaved, savedNames, notifyVars, sessionVars, storeVars>>

\* part_002:214-217, 265-291   saveAccounts: the file branch to its return,
\* the relational branch up to await pool.connect()
SaveAccountsStart(c, accounts, encryptionEnabled, secret, userId) ==
    /\ save[c].pc \in {"idle", "done"}
    /\ LET call == [IdleSave EXCEPT !.accounts = accounts,
                                    !.encryptionEnabled = encryptionEnabled,
                                    !.secret = secret, !.userId = userId]
       IN IF isDatabaseEnabled
          THEN /\ save' = [save EXCEPT ![c] = [call EXCEPT !.pc = "connect"]]
               /\ lastSaved' = None
               /\ UNCHANGED <<accountsFile, savedNames>>
          ELSE /\ accountsFile' =
                     Some(IF encryptionEnabled
                          THEN MapSeq(FileRecord, accounts, encryptionEnabled, secret)
                          ELSE accounts)
               /\ save' = [save EXCEPT ![c] = [call EXCEPT !.pc = "done",
                                                           !.ret = Some(TRUE)]]
               /\ lastSaved' = Some(Saved(call))
               /\ savedNames' = [savedNames EXCEPT ![userId] = Names(accounts)]
    /\ loaded' = NoLoad
    /\ UNCHANGED <<dbPc, pool, isDbEnabled, databaseUrl, created, accountsTable, nextId,
                   notifyVars, sessionVars, storeVars>>

\* The call leaves the try block for the catch block of lines 257-260.
Catch(c) == save' = [save EXCEPT ![c].pc = "rollback"]

\* part_002:216   const client = await pool.connect(), outside the try block
Connect(c, ok) ==
    /\ save[c].pc = "connect"
    /\ save' = [save EXCEPT ![c] = IF ok THEN [@ EXCEPT !.pc = "begin"]
                                   ELSE [IdleSave EXCEPT !.pc = "done",
                                                         !.raised = TRUE]]
    /\ UNCHANGED <<dbPc, pool, isDbEnabled, databaseUrl, created, accountsFile, accountsTable, nextId,
                   loaded, lastSaved, savedNames, notifyVars, sessionVars, storeVars>>

\* part_002:218   await client.query('BEGIN')
Begin(c, ok) ==
    /\ save[c].pc = "begin"
    /\ IF ok THEN save' = [save EXCEPT ![c].pc = "delete"] ELSE Catch(c)
    /\ UNCHANGED <<dbPc, pool, isDbEnabled, databaseUrl, created, accountsFile, accountsTable, nextId,
                   loaded, lastSaved, savedNames, notifyVars, sessionVars, storeVars>>

\* part_002:221-225   the DELETE is sent: under READ COMMITTED it sees the rows
\* committed when it starts
DeleteStart(c, ok) ==
    /\ save[c].pc = "delete"
    /\ IF ok
       THEN save' = [save EXCEPT ![c].pc = "deleting",
                                 ![c].snapshot =
                                     {id \in DOMAIN accountsTable :
                                         ToDelete(accountsTable[id], save[c].userId)}]
       ELSE Catch(c)
    /\ UNCHANGED <<dbPc, pool, isDbEnabled, databaseUrl, created, accountsFile, accountsTable, nextId,
                   loaded, lastSaved, savedNames, notifyVars, sessionVars, storeVars>>

\* part_002:221-225   the DELETE completes: it waits for the transactions that
\* hold a row it saw, then deletes the rows it saw that are still there
DeleteDone(c) ==
    /\ save[c].pc = "deleting"
    /\ \A other \in Callers \ {c} : save[c].snapshot \cap save[other].deleted = {}
    /\ save' = [save EXCEPT ![c].pc = IF save[c].accounts = <<>>
                                      THEN "commit" ELSE "insert",
                            ![c].deleted = save[c].snapshot \cap DOMAIN accountsTable]
    /\ UNCHANGED <<dbPc, pool, isDbEnabled, databaseUrl, created, accountsFile, accountsTable, nextId,
                   loaded, lastSaved, savedNames, notifyVars, sessionVars, storeVars>>

\* part_002:88, 110   user_id INTEGER REFERENCES users(id): a row is accepted
\* with no owner or with the id of a row of table users
References(userId) == userId = None \/ Get(userId) \in DOMAIN usersTable

\* part_002:228-249   one turn of the loop: the INSERT of the next account; it
\* fails when the statement fails or the owner is not in table users
Insert(c, ok) ==
    /\ save[c].pc = "insert"
    /\ nextId <= MaxRows
    /\ LET call == save[c]
           row == InsertedRow(call.accounts[call.i], call.encryptionEnabled,
                              call.secret, call.userId)
       IN IF ok /\ References(call.userId)
          THEN /\ save' = [save EXCEPT
                             ![c].inserted = Put(call.inserted, nextId, row),
                             ![c].i = call.i + 1,
                             ![c].pc = IF call.i = Len(call.accounts)
                                       THEN "commit" ELSE "insert"]
               /\ nextId' = nextId + 1
          ELSE Catch(c) /\ UNCHANGED nextId
    /\ UNCHANGED <<dbPc, pool, isDbEnabled, databaseUrl, created, accountsFile, accountsTable,
                   loaded, lastSaved, savedNames, notifyVars, sessionVars, storeVars>>

\* part_002:252-256   await client.query('COMMIT'); return true
Commit(c, ok) ==
    /\ save[c].pc = "commit"
    /\ IF ok
       THEN /\ accountsTable' =
                  [id \in (DOMAIN accountsTable \ save[c].deleted)
                          \cup DOMAIN save[c].inserted |->
                      IF id \in DOMAIN save[c].inserted
                      THEN save[c].inserted[id] ELSE accountsTable[id]]
            /\ save' = [save EXCEPT ![c].pc = "done", ![c].ret = Some(TRUE),
                                    ![c].deleted = {}]
            /\ lastSaved' = Some(Saved(save[c]))
            /\ savedNames' = [savedNames EXCEPT ![save[c].userId] =
                                                   Names(save[c].accounts)]
       ELSE Catch(c) /\ UNCHANGED <<accountsTable, lastSaved, savedNames>>
    /\ UNCHANGED <<dbPc, pool, isDbEnabled, databaseUrl, created, accountsFile, nextId, loaded,
                   notifyVars, sessionVars, storeVars>>

\* part_002:257-262   catch: await client.query('ROLLBACK'); return false.  A
\* ROLLBACK that fails throws out of the catch block; the transaction ends
\* with the connection either way.
Rollback(c, ok) ==
    /\ save[c].pc = "rollback"
    /\ save' = [save EXCEPT ![c] =
                    [IdleSave EXCEPT !.pc = "done",
                                     !.ret = IF ok THEN Some(FALSE) ELSE None,
                                     !.raised = ~ok]]
    /\ UNCHANGED <<dbPc, pool, isDbEnabled, databaseUrl, created, accountsFile, accountsTable, nextId,
                   loaded, lastSaved, savedNames, notifyVars, sessionVars, storeVars>>

InitDb ==
    /\ dbPc = "start"
    /\ databaseUrl = None
    /\ created = <<>>
    /\ pool = None
    /\ isDbEnabled = FALSE
    /\ accountsFile = None
    /\ accountsTable = EmptyMap
    /\ nextId = 1
    /\ save = [c \in Callers |-> IdleSave]
    /\ loaded = NoLoad
    /\ lastSaved = None
    /\ savedNames = [scope \in Scopes |-> {}]

-----------------------------------------------------------------------------
(* db.js (part_002): users and webhooks.                                    *)

Usernames == {"alice", "bob"}
PasswordHashes == {"hash1", "hash2"}
Roles == {"user"}

\* part_002:368, 378   new Error('用户名已存在')
UsernameExists == "username already exists"

\* part_002:381   the object pushed to the array of USERS_FILE (createdAt left
\* out)
UserRecord(id, username, passwordHash, role) ==
    [id |-> id, username |-> username, passwordHash |-> passwordHash, role |-> role]

\* part_002:362   the row inserted into table users
UserRow(username, passwordHash, role) ==
    [username |-> username, password_hash |-> passwordHash, role |-> role]

\* part_002:452-461   loadUsersFromFile
loadUsersFromFile == IF usersFile = None THEN <<>> ELSE Get(usersFile)

\* Array.prototype.findIndex: the first index whose element is accepted, 0
\* (for -1) when there is none
FindFirst(list, accepted) ==
    IF \E i \in DOMAIN list : list[i] \in accepted
    THEN CHOOSE i \in DOMAIN list :
            /\ list[i] \in accepted
            /\ \A j \in 1..(i - 1) : list[j] \notin accepted
    ELSE 0

\* Array.prototype.splice(index, 1)
Splice(list, index) ==
    [i \in 1..(Len(list) - 1) |-> IF i < index THEN list[i] ELSE list[i + 1]]

\* The users stored in the active backend.
StoredUsers ==
    IF isDatabaseEnabled
    THEN {UserRecord(id, usersTable[id].username, usersTable[id].password_hash,
                     usersTable[id].role) : id \in DOMAIN usersTable}
    ELSE Range(loadUsersFromFile)

\* A call on users or webhooks that has ended.
Reply(op, arg, ret, raised, before) ==
    [op |-> op, arg |-> arg, ret |-> ret, raised |-> raised, before |-> before]

\* A createUser whose file branch does not look for the username.
createUserFileUnchecked(username, passwordHash, role) ==
    /\ usersFile' = Some(Append(loadUsersFromFile,
                                UserRecord(Len(loadUsersFromFile) + 1,
                                           username, passwordHash, role)))
    /\ ended' = Reply("createUser", username,
                      Some(Len(loadUsersFromFile) + 1), None, StoredUsers)

\* part_002:375-383   createUser, file branch: no await, so one step
createUserFile(username, passwordHash, role) ==
    IF \E i \in DOMAIN loadUsersFromFile :
          loadUsersFromFile[i].username = username
    THEN /\ ended' = Reply("createUser", username, None,
                           Some(UsernameExists), StoredUsers)
         /\ UNCHANGED usersFile
    ELSE /\ usersFile' = Some(Append(loadUsersFromFile,
                                     UserRecord(Len(loadUsersFromFile) + 1,
                                                username, passwordHash, role)))
         /\ ended' = Reply("createUser", username,
                           Some(Len(loadUsersFromFile) + 1), None, StoredUsers)

\* part_002:358-384   createUser.  In the relational branch the INSERT draws
\* its id from the sequence before the UNIQUE constraint of username (line 76)
\* is checked; error 23505 is rethrown as the conflict error.
CreateUser(username, passwordHash, role) ==
    /\ IF isDatabaseEnabled
       THEN /\ nextUserId <= MaxUsers
            /\ nextUserId' = nextUserId + 1
            /\ IF \E id \in DOMAIN usersTable : usersTable[id].username = username
               THEN /\ ended' = Reply("createUser", username, None,
                                      Some(UsernameExists), StoredUsers)
                    /\ UNCHANGED usersTable
               ELSE /\ usersTable' = Put(usersTable, nextUserId,
                                         UserRow(username, passwordHash, role))
                    /\ ended' = Reply("createUser", username, Some(nextUserId),
                                      None, StoredUsers)
            /\ UNCHANGED usersFile
       ELSE /\ Len(loadUsersFromFile) < MaxUsers
            /\ createUserFile(username, passwordHash, role)
            /\ UNCHANGED <<usersTable, nextUserId>>
    /\ UNCHANGED <<webhooksFile, webhooksTable, hook, usageVars, passwordVars, registryVars, notifyVars, sessionVars,
                   dbVars>>

\* part_002:88, 110   ON DELETE CASCADE: the rows of a table that the deleted
\* user does not own
NotOwnedBy(table, userId) ==
    [id \in {x \in DOMAIN table : table[x].user_id # Some(userId)} |-> table[id]]

\* part_002:435-450   deleteUser: the DELETE with its cascade to accounts and
\* webhooks, or the rewrite of USERS_FILE
DeleteUser(userId) ==
    /\ IF isDatabaseEnabled
       THEN /\ usersTable' = Delete(usersTable, userId)
            /\ accountsTable' = IF userId \in DOMAIN usersTable
                                THEN NotOwnedBy(accountsTable, userId)
                                ELSE accountsTable
            /\ webhooksTable' = IF userId \in DOMAIN usersTable
                                THEN NotOwnedBy(webhooksTable, userId)
                                ELSE webhooksTable
            /\ ended' = Reply("deleteUser", userId,
                              Some(userId \in DOMAIN usersTable), None, StoredUsers)
            /\ UNCHANGED usersFile
       ELSE LET users == loadUsersFromFile
                index == FindFirst(users, {u \in Range(users) : u.id = userId})
            IN /\ IF index # 0
                  THEN usersFile' = Some(Splice(users, index))
                  ELSE UNCHANGED usersFile
               /\ ended' = Reply("deleteUser", userId, Some(index # 0), None,
                                 StoredUsers)
               /\ UNCHANGED <<usersTable, accountsTable, webhooksTable>>
    /\ UNCHANGED <<nextUserId, webhooksFile, hook, usageVars, passwordVars, registryVars, notifyVars, sessionVars,
                   dbPc, pool, isDbEnabled, databaseUrl, created, accountsFile, nextId, save, loaded,
                   lastSaved, savedNames>>

\* part_002:494   the argument of saveWebhook (name, secret and events, which
\* are stored as url is, left out); enabled may be absent
Webhook(id, userId, url, enabled) ==
    [id |-> id, userId |-> userId, url |-> url, enabled |-> enabled]

\* part_002:501   webhook.enabled !== false
EnabledColumn(webhook) == webhook.enabled # Some(FALSE)

\* part_002:497-498   the row INSERT INTO webhooks adds
WebhookRow(webhook) ==
    [user_id |-> webhook.userId, url |-> webhook.url,
     enabled |-> EnabledColumn(webhook)]

\* An upsert that leaves the stored row as it is on a conflict.
UpsertKeepsOld(table, webhook) ==
    IF webhook.id \in DOMAIN table THEN table
    ELSE Put(table, webhook.id, WebhookRow(webhook))

\* part_002:496-501   INSERT ... ON CONFLICT (id) DO UPDATE SET name, url,
\* secret, events, enabled
Upsert(table, webhook) ==
    IF webhook.id \in DOMAIN table
    THEN [table EXCEPT ![webhook.id] =
             [@ EXCEPT !.url = webhook.url, !.enabled = EnabledColumn(webhook)]]
    ELSE Put(table, webhook.id, WebhookRow(webhook))

\* part_002:481-488   getWebhooks, file branch
getWebhooksFile == IF webhooksFile = None THEN <<>> ELSE Get(webhooksFile)

\* part_002:508-513   the array after the replacement or the push
Replaced(webhooks, webhook) ==
    LET index == FindFirst(webhooks, {w \in Range(webhooks) : w.id = webhook.id})
    IN IF index # 0 THEN [webhooks EXCEPT ![index] = webhook]
       ELSE Append(webhooks, webhook)

\* Registrations as the values saveWebhook was given, with enabled as the
\* column would hold it.
AsSaved(webhooks) ==
    {Webhook(w.id, w.userId, w.url, Some(EnabledColumn(w))) : w \in Range(webhooks)}

\* The stored registrations of the active backend: the rows of the table, or
\* the objects of the file.
StoredWebhooks ==
    IF isDatabaseEnabled
    THEN {Webhook(id, webhooksTable[id].user_id, webhooksTable[id].url,
                  Some(webhooksTable[id].enabled)) : id \in DOMAIN webhooksTable}
    ELSE AsSaved(getWebhooksFile)

\* No saveWebhook call is in progress.
IdleHook == [pc |-> "idle", webhook |-> None, webhooks |-> <<>>]

\* part_002:494-507   saveWebhook: the relational branch to its return (the
\* statement is refused, and the call raises, when the owner is not in table
\* users); the file branch up to await getWebhooks()
SaveWebhookStart(c, webhook) ==
    /\ hook[c].pc = "idle"
    /\ IF isDatabaseEnabled
       THEN /\ IF References(webhook.userId)
               THEN /\ webhooksTable' = Upsert(webhooksTable, webhook)
                    /\ ended' = Reply("saveWebhook", webhook, Some(TRUE), None,
                                      StoredWebhooks)
               ELSE /\ ended' = Reply("saveWebhook", webhook, None,
                                      Some("foreign key"), StoredWebhooks)
                    /\ UNCHANGED webhooksTable
            /\ UNCHANGED hook
       ELSE /\ hook' = [hook EXCEPT ![c] = [pc |-> "write",
                                            webhook |-> Some(webhook),
                                            webhooks |-> getWebhooksFile]]
            /\ UNCHANGED <<webhooksTable, ended>>
    /\ UNCHANGED <<usersFile, usersTable, nextUserId, webhooksFile, usageVars, passwordVars, registryVars, notifyVars,
                   sessionVars, dbVars>>

\* part_002:508-515   saveWebhook, file branch, after the await: the array read
\* before it is changed and written
SaveWebhookWrite(c) ==
    /\ hook[c].pc = "write"
    /\ webhooksFile' = Some(Replaced(hook[c].webhooks, Get(hook[c].webhook)))
    /\ ended' = Reply("saveWebhook", Get(hook[c].webhook), Some(TRUE), None,
                      AsSaved(hook[c].webhooks))
    /\ hook' = [hook EXCEPT ![c] = IdleHook]
    /\ UNCHANGED <<usersFile, usersTable, nextUserId, webhooksTable, usageVars, passwordVars, registryVars, notifyVars,
                   sessionVars, dbVars>>

\* part_002:521-527   deleteWebhook: the relational branch to its return, the
\* file branch up to await getWebhooks()
DeleteWebhookStart(c, webhookId) ==
    /\ hook[c].pc = "idle"
    /\ IF isDatabaseEnabled
       THEN /\ webhooksTable' = Delete(webhooksTable, webhookId)
            /\ ended' = Reply("deleteWebhook", webhookId,
                              Some(webhookId \in DOMAIN webhooksTable), None,
                              StoredWebhooks)
            /\ UNCHANGED hook
       ELSE /\ hook' = [hook EXCEPT ![c] = [pc |-> "delete",
                                            webhook |-> Some([id |-> webhookId]),
                                            webhooks |-> getWebhooksFile]]
            /\ UNCHANGED <<webhooksTable, ended>>
    /\ UNCHANGED <<usersFile, usersTable, nextUserId, webhooksFile, usageVars, passwordVars, registryVars, notifyVars,
                   sessionVars, dbVars>>

\* part_002:528-535   deleteWebhook, file branch, after the await: the array
\* read before it is spliced and written when the id is in it
DeleteWebhookWrite(c) ==
    /\ hook[c].pc = "delete"
    /\ LET webhooks == hook[c].webhooks
           webhookId == Get(hook[c].webhook).id
           index == FindFirst(webhooks, {w \in Range(webhooks) : w.id = webhookId})
       IN /\ IF index # 0
             THEN webhooksFile' = Some(Splice(webhooks, index))
             ELSE UNCHANGED webhooksFile
          /\ ended' = Reply("deleteWebhook", webhookId, Some(index # 0), None,
                            AsSaved(webhooks))
    /\ hook' = [hook EXCEPT ![c] = IdleHook]
    /\ UNCHANGED <<usersFile, usersTable, nextUserId, webhooksTable, usageVars, passwordVars, registryVars, notifyVars,
                   sessionVars, dbVars>>

\* A stored webhook as the registry holds it: the object of the file or the
\* row of the table, with the name, secret and events the model of the stored
\* webhooks leaves out (no secret, every event).
Registration(id, url, enabled) ==
    [id |-> id, name |-> "", url |-> url, secret |-> None, events |-> None,
     enabled |-> enabled]

\* part_002:468-489   getWebhooks(): the rows of SELECT * FROM webhooks, or the
\* array of the file
getWebhooks ==
    IF isDatabaseEnabled
    THEN LET ids == SelectSeq(<<"w1", "w2">>, LAMBDA id : id \in DOMAIN webhooksTable)
         IN [i \in DOMAIN ids |->
                Registration(ids[i], webhooksTable[ids[i]].url,
                             Some(webhooksTable[ids[i]].enabled))]
    ELSE [i \in DOMAIN getWebhooksFile |->
             Registration(getWebhooksFile[i].id, getWebhooksFile[i].url,
                          getWebhooksFile[i].enabled)]

\* src/Dockerfile:700-702 (also 585-587, 595-597)   the stored webhooks are
\* made the registry: setWebhookConfigs(await db.getWebhooks())
LoadWebhookConfigs ==
    /\ webhookConfigs' = setWebhookConfigs(Some(getWebhooks))
    /\ UNCHANGED <<sw, tw, sessionVars, dbVars, storeVars>>

NoReply == Reply("none", None, None, None, {})

\* The database the process connects to holds one user, alice, with id 1.
InitUsers ==
    /\ usersFile = None
    /\ usersTable = Put(EmptyMap, 1, UserRow("alice", "hash1", "user"))
    /\ nextUserId = 2
    /\ webhooksFile = None
    /\ webhooksTable = EmptyMap
    /\ hook = [c \in Callers |-> IdleHook]
    /\ ended = NoReply

-----------------------------------------------------------------------------
(* db.js (part_002): the usage history.  Times are in seconds, as now is;   *)
(* amounts are in units of 0.00001.                                         *)

AccountNames == {"a", "b"}

\* Two amounts: 0.1 and 0.12345.
UsageAmounts == {10000, 12345}

\* part_002:562, 573   24 * 60 * 60 * 1000, one day
DayMs == 24 * 60 * 60 * 1000

\* part_002:562   30 * 24 * 60 * 60 * 1000, as seconds
ThirtyDays == 30 * Seconds(DayMs)

\* part_002:555-559   the object pushed to the array of the file; recordedAt is
\* the ISO string of the time, which new Date() reads back as the same time
UsageRecord(accountName, usageAmount, recordedAt) ==
    [accountName |-> accountName, usageAmount |-> usageAmount,
     recordedAt |-> recordedAt]

\* part_002:125   usage_amount DECIMAL(10, 4): the value is rounded to four
\* decimals when it is stored
Decimal4(usageAmount) == ((usageAmount + 5) \div 10) * 10

\* part_002:603-612   loadUsageHistoryFromFile
loadUsageHistoryFromFile(file) == IF file = None THEN <<>> ELSE Get(file)

\* A recordUsage whose file branch keeps every record.
recordUsageFileKeepsAll(file, accountName, usageAmount, t) ==
    Some(Append(loadUsageHistoryFromFile(file),
                UsageRecord(accountName, usageAmount, t)))

\* part_002:553-566   recordUsage, file branch, at time t: the array written
recordUsageFile(file, accountName, usageAmount, t) ==
    LET history == Append(loadUsageHistoryFromFile(file),
                          UsageRecord(accountName, usageAmount, t))
        thirtyDaysAgo == t - ThirtyDays
    IN Some(SelectSeq(history, LAMBDA h : h.recordedAt > thirtyDaysAgo))

\* part_002:545-548   recordUsage, relational branch, at time t: the INSERT,
\* recorded_at being CURRENT_TIMESTAMP
recordUsageDb(table, accountName, usageAmount, t) ==
    Append(table, UsageRecord(accountName, Decimal4(usageAmount), t))

RECURSIVE SortByRecordedAt(_)
\* part_002:600, 582   sort by recordedAt, ORDER BY recorded_at: ascending,
\* records of the same time in the order they had
SortByRecordedAt(list) ==
    IF list = <<>> THEN <<>>
    ELSE LET least == CHOOSE i \in DOMAIN list :
                         /\ \A j \in DOMAIN list :
                               list[i].recordedAt <= list[j].recordedAt
                         /\ \A j \in 1..(i - 1) :
                               list[j].recordedAt # list[i].recordedAt
         IN <<list[least]>> \o SortByRecordedAt(Splice(list, least))

\* part_002:573-601   what getUsageHistory(accountName, days) keeps at time t
InWindow(h, accountName, days, t) ==
    /\ h.recordedAt > t - days * Seconds(DayMs)
    /\ accountName = None \/ h.accountName = Get(accountName)

\* part_002:593-600   getUsageHistory, file branch
getUsageHistoryFile(file, accountName, days, t) ==
    SortByRecordedAt(SelectSeq(loadUsageHistoryFromFile(file),
                               LAMBDA h : InWindow(h, accountName, days, t)))

\* part_002:575-589   getUsageHistory, relational branch (parseFloat reads the
\* stored decimal back)
getUsageHistoryDb(table, accountName, days, t) ==
    SortByRecordedAt(SelectSeq(table, LAMBDA h : InWindow(h, accountName, days, t)))

\* The accountName and days arguments of getUsageHistory.
AccountNameArgs == {None, Some("a")}
DaysArgs == {1, 30, 60}

\* The days that pass between two calls.
DaySteps == {1, 30}

\* The same recordUsage call at the same time on a process in file mode and
\* on a process in database mode.
BothRecordUsage(accountName, usageAmount) ==
    /\ Len(usageTable) < MaxRecords
    /\ usageFile' = recordUsageFile(usageFile, accountName, usageAmount, now)
    /\ usageTable' = recordUsageDb(usageTable, accountName, usageAmount, now)
    /\ UNCHANGED <<usageRet, userVars, passwordVars, registryVars, notifyVars, sessionVars, dbVars>>

\* The same getUsageHistory call at the same time on both.
BothGetUsageHistory(accountName, days) ==
    /\ usageRet' = [op |-> "get", accountName |-> accountName, days |-> days,
                    at |-> now,
                    file |-> getUsageHistoryFile(usageFile, accountName, days, now),
                    db |-> getUsageHistoryDb(usageTable, accountName, days, now)]
    /\ UNCHANGED <<usageFile, usageTable, userVars, passwordVars, registryVars, notifyVars, sessionVars, dbVars>>

\* Days pass, one day or thirty at a time.
DaysPass(days) ==
    /\ (now \div ThirtyDays) + ((now % ThirtyDays) \div Seconds(DayMs)) < MaxDaySteps
    /\ now' = now + days * Seconds(DayMs)
    /\ UNCHANGED <<redisUrl, redisPing, redisClient, isRedisEnabled,
                   memorySessions, redisKeys, initPc, calls, last, issued,
                   destroyed, notifyVars, dbVars, storeVars>>

InitUsage ==
    /\ usageFile = None
    /\ usageTable = <<>>
    /\ usageRet = [op |-> "none", accountName |-> None, days |-> 0, at |-> 0,
                   file |-> <<>>, db |-> <<>>]

-----------------------------------------------------------------------------
(* password-utils.js, db.js (part_002) and the server: the admin password.  *)
(* A string is a sequence of pieces, so that its prefix can be looked at:   *)
(* "abc123" is <<"abc123">>, "$2plain" is <<"$2", "plain">>.                *)

\* The passwords the clients send: printable ASCII, 6 to 128 characters.
Passwords == {<<"abc123">>, <<"hunter22">>, <<"$2", "plain">>}

\* String.prototype.startsWith('$2')
StartsWithDollar2(string) == Len(string) > 0 /\ string[1] = "$2"

\* password-utils.js:15-17   hashPassword: the bcrypt hash, "$2b$12$" and the
\* digest of the password (the salt is left out)
hashPassword(password) == <<"$2", "b$12$">> \o password

\* bcrypt.compare: true for the hash bcrypt made of this password
BcryptCompare(password, hash) ==
    /\ Len(hash) >= 2 /\ hash[2] = "b$12$"
    /\ SubSeq(hash, 3, Len(hash)) = password

\* A verifyPassword without the comparison of legacy plaintext passwords.
verifyPasswordHashOnly(password, hash) == BcryptCompare(password, hash)

\* password-utils.js:25-31   verifyPassword
verifyPassword(password, hash) ==
    IF ~StartsWithDollar2(hash) THEN password = hash
    ELSE BcryptCompare(password, hash)

\* password-utils.js:38-43   isHashed, of a string or of no string (None is
\* null and undefined alike: !password holds for both)
isHashed(password) == password # None /\ StartsWithDollar2(Get(password))

\* part_002:299-322   loadPassword
loadPassword == IF isDatabaseEnabled THEN configPassword ELSE passwordFile

\* A saveAdminPassword that hands the password itself to savePassword.
saveAdminPasswordClear(password) == password

\* src/Dockerfile:97-100   saveAdminPassword: the value handed to
\* db.savePassword
saveAdminPassword(password) == hashPassword(password)

\* part_002:327-351   savePassword: the upsert of row admin_password or the
\* write of the file; when it fails (ok is false) nothing is stored and false
\* is returned
SavePassword(password, ok) ==
    IF ok
    THEN IF isDatabaseEnabled
         THEN configPassword' = Some(password) /\ UNCHANGED passwordFile
         ELSE passwordFile' = Some(password) /\ UNCHANGED configPassword
    ELSE UNCHANGED <<passwordFile, configPassword>>

\* A request that was handled: the route, the password sent, the stored value
\* read, the result of verifyPassword, and whether a value was stored.
Auth(route, password, saved, valid, stored) ==
    [route |-> route, password |-> password, saved |-> saved, valid |-> valid,
     stored |-> stored]

\* The password a version without hashing has left behind, in the file or in
\* the table, before the process starts.
LegacyPassword(password, inTable) ==
    /\ dbPc = "start"
    /\ passwordFile = None /\ configPassword = None
    /\ IF inTable
       THEN configPassword' = Some(password) /\ UNCHANGED passwordFile
       ELSE passwordFile' = Some(password) /\ UNCHANGED configPassword
    /\ UNCHANGED <<auth, util, registryVars, userVars, usageVars, notifyVars, sessionVars, dbVars>>

\* src/Dockerfile:300-314   POST /api/set-password
SetPassword(password, ok) ==
    /\ IF loadPassword # None
       THEN /\ auth' = Auth("set-password", password, loadPassword, FALSE, FALSE)
            /\ UNCHANGED <<passwordFile, configPassword>>
       ELSE /\ SavePassword(saveAdminPassword(password), ok)
            /\ auth' = Auth("set-password", password, loadPassword, FALSE, ok)
    /\ UNCHANGED <<util, registryVars, userVars, usageVars, notifyVars, sessionVars, dbVars>>

\* src/Dockerfile:316-340   POST /api/verify-password, up to await
\* createSession() at line 332 (the action CreateSession) or up to the
\* sendWebhook of line 337; the result of saveAdminPassword is not looked at
VerifyPassword(password, ok) ==
    /\ LET savedPassword == loadPassword
           isValid == savedPassword # None
                        /\ verifyPassword(password, Get(savedPassword))
       IN IF isValid /\ ~isHashed(savedPassword)
          THEN /\ SavePassword(saveAdminPassword(password), ok)
               /\ auth' = Auth("verify-password", password, savedPassword, TRUE, ok)
          ELSE /\ auth' = Auth("verify-password", password, savedPassword,
                               isValid, FALSE)
               /\ UNCHANGED <<passwordFile, configPassword>>
    /\ UNCHANGED <<util, registryVars, userVars, usageVars, notifyVars, sessionVars, dbVars>>

\* src/Dockerfile:118-145   requireAuth for a request with the header
\* x-admin-password and no session token
RequireAuth(password) ==
    /\ auth' = Auth("requireAuth", password, loadPassword,
                    loadPassword # None /\ verifyPassword(password, Get(loadPassword)),
                    FALSE)
    /\ UNCHANGED <<passwordFile, configPassword, util, registryVars, userVars, usageVars,
                   notifyVars, sessionVars, dbVars>>

\* The strings verifyPassword and isHashed are called with: passwords, their
\* hashes, the empty string and strings that only start like a hash.
StoredStrings ==
    Passwords \cup {hashPassword(password) : password \in Passwords}
              \cup {<<>>, <<"$2">>, hashPassword(<<>>)}

\* password-utils.js:25-31   a call verifyPassword(password, hash)
VerifyPasswordCall(password, hash) ==
    /\ util' = [util EXCEPT !.verify = [password |-> Some(password),
                                        hash |-> Some(hash),
                                        ret |-> verifyPassword(password, hash)]]
    /\ UNCHANGED <<passwordFile, configPassword, auth, registryVars, userVars, usageVars,
                   notifyVars, sessionVars, dbVars>>

\* password-utils.js:38-43   a call isHashed(value)
IsHashedCall(value) ==
    /\ util' = [util EXCEPT !.hashed = [called |-> TRUE, value |-> value,
                                        ret |-> isHashed(value)]]
    /\ UNCHANGED <<passwordFile, configPassword, auth, registryVars, userVars, usageVars,
                   notifyVars, sessionVars, dbVars>>

InitPassword ==
    /\ passwordFile = None
    /\ configPassword = None
    /\ auth = Auth("none", <<>>, None, FALSE, FALSE)
    /\ util = [verify |-> [password |-> None, hash |-> None, ret |-> FALSE],
               hashed |-> [called |-> FALSE, value |-> None, ret |-> FALSE]]

-----------------------------------------------------------------------------
(* Specifications.                                                          *)

InitNotify ==
    /\ webhookConfigs = <<>>
    /\ sw = IdleCall
    /\ tw = IdleCall

InitSession ==
    /\ now = 0
    /\ redisUrl = None
    /\ redisPing = ""
    /\ redisClient = None
    /\ isRedisEnabled = FALSE
    /\ memorySessions = EmptyMap
    /\ redisKeys = EmptyMap
    /\ initPc = "start"
    /\ calls = <<>>
    /\ last = NoCall
    /\ issued = EmptyMap
    /\ destroyed = {}

Init == InitNotify /\ InitSession /\ InitDb /\ InitUsers /\ InitUsage
        /\ InitPassword /\ InitRegistry

NextNotify ==
    \/ \E configs \in ConfigArrays : SetWebhookConfigs(configs)
    \/ \E config \in ConfigInputs : AddWebhook(config)
    \/ \E id \in 1..(MaxHooks + 1) : RemoveWebhook(id)
    \/ \E event \in SentEvents, timestamp \in Timestamps, data \in DataInputs :
          SendWebhookStart(event, timestamp, data)
    \/ SendWebhookReturn
    \/ \E url \in TestUrls, secret \in TestSecrets, timestamp \in Timestamps :
          TestWebhookStart(url, secret, timestamp)
    \/ TestWebhookReturn

SpecNotify == Init /\ [][NextNotify]_vars

\* The event loop resumes a call whose promises have all settled.
FairSpecNotify ==
    SpecNotify /\ WF_vars(SendWebhookReturn) /\ WF_vars(TestWebhookReturn)

\* The registry on its own: addWebhook and removeWebhook with what they return.
NextRegistry ==
    \/ \E config \in {HookA, HookB, HookC, HookE} : AddWebhookReturning(config)
    \/ \E id \in 1..(MaxHooks + 1) \cup {OwnId} : RemoveWebhookReturning(id)

SpecRegistry == Init /\ [][NextRegistry]_vars

\* The server accepts requests once initSessionStore has returned
\* (startServer awaits it before app.listen).
Listening == initPc = "done"

NextSession ==
    \/ \E url \in RedisUrls : InitSessionStoreStart(url)
    \/ \E reply \in PingReplies : InitSessionStorePing(reply)
    \/ Listening /\ \E userId \in UserIdInputs, gap \in {0, 1} : CreateSession(userId, gap)
    \/ Listening /\ \E token \in {None} \cup {Some(t) : t \in KnownTokens} : ValidateSession(token)
    \/ Listening /\ \E token \in KnownTokens : DestroySession(token)
    \/ RedisReply
    \/ CleanExpiredSessions
    \/ \E d \in ClockSteps : Tick(d)

SpecSession == Init /\ [][NextSession]_vars

\* The session store with its count: sessions are created, validated and
\* destroyed, time passes, the sweep runs, and getActiveSessionCount is called.
NextCount ==
    \/ \E url \in RedisUrls : InitSessionStoreStart(url)
    \/ InitSessionStorePing("PONG")
    \/ Listening /\ CreateSession(None, 0)
    \/ Listening /\ \E token \in DOMAIN issued : ValidateSession(Some(token))
    \/ Listening /\ \E token \in DOMAIN issued : DestroySession(token)
    \/ Listening /\ GetActiveSessionCount
    \/ RedisReply
    \/ RedisReplyKeys
    \/ CleanExpiredSessions
    \/ \E d \in ClockSteps : Tick(d)

SpecCount == Init /\ [][NextCount]_vars

\* The sweep: sessions are created before, while and after initSessionStore
\* runs, the store is initialised before the first of them expires, and the
\* timer of line 166 runs cleanExpiredSessions.
NextSweep ==
    \/ \E url \in RedisUrls : InitSessionStoreStart(url)
    \/ \E reply \in PingReplies : InitSessionStorePing(reply)
    \/ \E gap \in {0, 1} : CreateSession(None, gap)
    \/ RedisReply
    \/ CleanExpiredSessions
    \/ Listening /\ \E d \in ClockSteps : Tick(d)

SpecSweep == Init /\ [][NextSweep]_vars

\* setInterval runs the sweep every hour for as long as the process lives.
FairSpecSweep == SpecSweep /\ WF_vars(CleanExpiredSessions)

\* The module as a library: once initSessionStore has been called,
\* createSession, validateSession and destroySession are called whether or
\* not it has returned.
NextInitRace ==
    \/ \E url \in RedisUrls : InitSessionStoreStart(url)
    \/ \E reply \in PingReplies : InitSessionStorePing(reply)
    \/ initPc # "start" /\ \E userId \in UserIdInputs : CreateSession(userId, 0)
    \/ \E token \in DOMAIN issued : ValidateSession(Some(token))
    \/ \E token \in DOMAIN issued : DestroySession(token)
    \/ RedisReply
    \/ \E d \in ClockSteps : Tick(d)

SpecInitRace == Init /\ [][NextInitRace]_vars

-----------------------------------------------------------------------------
(* session-store.js: the two stores side by side.  One caller makes the same *)
(* calls, one after the other and at the same times, on a store in memory    *)
(* mode (memorySessions) and on a store in Redis mode (redisKeys); each call *)
(* returns before the clock advances.                                        *)

\* A result and the store after the call.
Outcome(ret, store) == [ret |-> ret, store |-> store]

\* session-store.js:75   createSession, memory branch
CreateInMemory(map, token, session) == Put(map, token, session)

\* session-store.js:68-72   createSession, Redis branch: SETEX at time t
CreateInRedis(keys, token, session, t) ==
    Put(LiveKeys(keys, t), token,
        [value |-> SerializeSession(session), expireAt |-> t + SessionTtlSeconds])

\* session-store.js:99-107   validateSession from `if (!session)` on, given
\* the session read and the store without the token
ValidateRead(session, t, store, purged) ==
    IF session = None THEN Outcome(None, store)
    ELSE IF Expired(Get(session), t) THEN Outcome(None, purged)
    ELSE Outcome(session, store)

\* session-store.js:85-107   validateSession, memory branch
ValidateInMemory(map, token, t) ==
    IF token = None THEN Outcome(None, map)
    ELSE ValidateRead(IF Get(token) \in DOMAIN map
                      THEN Some(map[Get(token)]) ELSE None,
                      t, map, Delete(map, Get(token)))

\* session-store.js:85-107   validateSession, Redis branch: GET, and DEL for
\* an expired session, at time t
ValidateInRedis(keys, token, t) ==
    IF token = None THEN Outcome(None, LiveKeys(keys, t))
    ELSE ValidateRead(IF Get(token) \in DOMAIN LiveKeys(keys, t)
                      THEN Some(ParseSession(keys[Get(token)].value)) ELSE None,
                      t, LiveKeys(keys, t), Delete(LiveKeys(keys, t), Get(token)))

\* What the same call returned in memory mode and in Redis mode.
Compared(op, token, memory, redis) ==
    [op |-> op, token |-> token, memory |-> memory, redis |-> redis, at |-> now]

BothCreateSession(userId, gap) ==
    /\ FreshToken <= MaxTokens
    /\ CanTick(gap)
    /\ now' = now + gap
    /\ LET token == FreshToken
           session == NewSession(userId, now, gap)
       IN /\ memorySessions' = CreateInMemory(memorySessions, token, session)
          /\ redisKeys' = CreateInRedis(redisKeys, token, session, now + gap)
          /\ issued' = Put(issued, token, Issued(userId, session))
          /\ last' = Compared("create", token, "session_", "session_")
    /\ UNCHANGED <<redisUrl, redisPing, redisClient, isRedisEnabled, initPc,
                   calls, destroyed, notifyVars, dbVars, storeVars>>

BothValidateSession(token) ==
    /\ LET memory == ValidateInMemory(memorySessions, token, now)
           redis == ValidateInRedis(redisKeys, token, now)
       IN /\ memorySessions' = memory.store
          /\ redisKeys' = redis.store
          /\ last' = Compared("validate", token, memory.ret, redis.ret)
    /\ UNCHANGED <<now, redisUrl, redisPing, redisClient, isRedisEnabled,
                   initPc, calls, issued, destroyed, notifyVars, dbVars, storeVars>>

BothDestroySession(token) ==
    /\ memorySessions' = Delete(memorySessions, token)
    /\ redisKeys' = Delete(LiveKeys(redisKeys, now), token)
    /\ last' = Compared("destroy", Some(token), None, None)
    /\ destroyed' = destroyed \cup {token}
    /\ UNCHANGED <<now, redisUrl, redisPing, redisClient, isRedisEnabled,
                   initPc, calls, issued, notifyVars, dbVars, storeVars>>

BothGetActiveSessionCount ==
    /\ last' = Compared("count", None, CountInMemory(memorySessions, now),
                        CountInRedis(redisKeys, now))
    /\ UNCHANGED <<now, redisUrl, redisPing, redisClient, isRedisEnabled,
                   memorySessions, redisKeys, initPc, calls, issued, destroyed,
                   notifyVars, dbVars, storeVars>>

\* The server calls the persistence layer once initDatabase has returned
\* (startServer awaits it first).
DbReady == dbPc = "done"

\* No saveAccounts call is in progress.
NoSaveInProgress == \A c \in Callers : save[c].pc \in {"idle", "done"}

\* The accounts operations of one caller, one call at a time; in the
\* relational branch any statement of saveAccounts may fail.
NextAccounts ==
    \/ \E url \in DatabaseUrls : InitDatabaseStart(url, TRUE)
    \/ InitDatabaseQuery(TRUE)
    \/ \E enc \in EncryptionArgs, userId \in Scopes :
          DbReady /\ NoSaveInProgress
                  /\ LoadAccounts(enc.encryptionEnabled, enc.secret, userId)
    \/ \E accounts \in AccountLists, enc \in EncryptionArgs, userId \in Scopes :
          DbReady /\ NoSaveInProgress
                  /\ SaveAccountsStart(1, accounts, enc.encryptionEnabled,
                                       enc.secret, userId)
    \/ \E ok \in BOOLEAN : Connect(1, ok)
    \/ \E ok \in BOOLEAN : Begin(1, ok)
    \/ \E ok \in BOOLEAN : DeleteStart(1, ok)
    \/ DeleteDone(1)
    \/ \E ok \in BOOLEAN : Insert(1, ok)
    \/ \E ok \in BOOLEAN : Commit(1, ok)
    \/ \E ok \in BOOLEAN : Rollback(1, ok)

SpecAccounts == Init /\ [][NextAccounts]_vars

\* The accounts arrays of the concurrent callers.
ConcurrentLists == {<<AccountA>>, <<AccountB, AccountA>>}

\* Concurrent saveAccounts calls on the relational backend, every statement
\* succeeding: the request handlers of two clients.
NextConcurrentSaves ==
    \/ \E url \in DatabaseUrls \ {None} : InitDatabaseStart(url, TRUE)
    \/ InitDatabaseQuery(TRUE)
    \/ \E c \in Callers, accounts \in ConcurrentLists, userId \in Scopes :
          DbReady /\ SaveAccountsStart(c, accounts, FALSE, "", userId)
    \/ \E c \in Callers : Connect(c, TRUE)
    \/ \E c \in Callers : Begin(c, TRUE)
    \/ \E c \in Callers : DeleteStart(c, TRUE)
    \/ \E c \in Callers : DeleteDone(c)
    \/ \E c \in Callers : Insert(c, TRUE)
    \/ \E c \in Callers : Commit(c, TRUE)

SpecConcurrentSaves == Init /\ [][NextConcurrentSaves]_vars

\* The same caller on both stores; the hourly timer sweeps the store in memory
\* mode (isRedisEnabled is false there) and returns at once in Redis mode.
NextEquivalence ==
    \/ \E userId \in UserIdInputs, gap \in {0, 1} : BothCreateSession(userId, gap)
    \/ \E token \in {None} \cup {Some(t) : t \in KnownTokens} : BothValidateSession(token)
    \/ \E token \in KnownTokens : BothDestroySession(token)
    \/ BothGetActiveSessionCount
    \/ CleanExpiredSessions
    \/ \E d \in ClockSteps : Tick(d)

SpecEquivalence == Init /\ [][NextEquivalence]_vars

\* The registrations the callers save in the model.
Webhooks ==
    {Webhook("w1", None, "https://hooks.example/a", None),
     Webhook("w1", None, "https://hooks.example/c", None),
     Webhook("w1", None, "https://hooks.example/a", Some(FALSE)),
     Webhook("w1", Some(1), "https://hooks.example/a", None),
     Webhook("w2", None, "https://hooks.example/a", None)}

\* The registrations with an owner that are saved while users come and go.
OwnedWebhooks ==
    {Webhook("w1", Some(1), "https://hooks.example/a", None),
     Webhook("w2", Some(2), "https://hooks.example/a", None)}

\* Users, their accounts and their webhooks.  One caller calls saveAccounts
\* for the scope of a user id and saveWebhook for a registration with an
\* owner; every statement saveAccounts sends succeeds unless the database
\* refuses it.
NextUsers ==
    \/ \E url \in DatabaseUrls : InitDatabaseStart(url, TRUE)
    \/ InitDatabaseQuery(TRUE)
    \/ DbReady /\ \E username \in Usernames, passwordHash \in PasswordHashes,
                     role \in Roles : CreateUser(username, passwordHash, role)
    \/ DbReady /\ NoSaveInProgress /\ \E userId \in 1..MaxUsers : DeleteUser(userId)
    \/ DbReady /\ \E webhook \in OwnedWebhooks : SaveWebhookStart(1, webhook)
    \/ SaveWebhookWrite(1)
    \/ DbReady /\ NoSaveInProgress
          /\ \E userId \in {Some(1), Some(2)} :
                SaveAccountsStart(1, <<AccountA>>, FALSE, "", userId)
    \/ Connect(1, TRUE)
    \/ Begin(1, TRUE)
    \/ DeleteStart(1, TRUE)
    \/ DeleteDone(1)
    \/ Insert(1, TRUE)
    \/ Commit(1, TRUE)
    \/ Rollback(1, TRUE)

SpecUsers == Init /\ [][NextUsers]_vars

\* The webhooks of a fixed set of users: every caller calls saveWebhook.
NextWebhooks ==
    \/ \E url \in DatabaseUrls : InitDatabaseStart(url, TRUE)
    \/ InitDatabaseQuery(TRUE)
    \/ DbReady /\ \E c \in Callers, webhook \in Webhooks : SaveWebhookStart(c, webhook)
    \/ \E c \in Callers : SaveWebhookWrite(c)

SpecWebhooks == Init /\ [][NextWebhooks]_vars

\* The ids deleteWebhook is called with.
WebhookIds == {"w1", "w2"}

\* Removals: users and webhooks are stored and deleted, registrations added
\* and removed, with ids that are stored and ids that are not.
NextRemovals ==
    \/ \E url \in DatabaseUrls : InitDatabaseStart(url, TRUE)
    \/ InitDatabaseQuery(TRUE)
    \/ DbReady /\ \E username \in {"alice", "bob"} : CreateUser(username, "hash1", "user")
    \/ DbReady /\ \E userId \in 1..MaxUsers : DeleteUser(userId)
    \/ DbReady /\ SaveWebhookStart(1, Webhook("w1", None, "https://hooks.example/a", None))
    \/ SaveWebhookWrite(1)
    \/ DbReady /\ \E webhookId \in WebhookIds : DeleteWebhookStart(1, webhookId)
    \/ DeleteWebhookWrite(1)
    \/ AddWebhookReturning(HookA)
    \/ \E id \in 1..(MaxHooks + 1) : RemoveWebhookReturning(id)

SpecRemovals == Init /\ [][NextRemovals]_vars

\* Overlapping calls on the stored webhooks: each caller saves or deletes a
\* registration while the call of the other is between its read and its write.
NextConcurrentWebhooks ==
    \/ \E url \in DatabaseUrls : InitDatabaseStart(url, TRUE)
    \/ InitDatabaseQuery(TRUE)
    \/ DbReady /\ \E c \in Callers, webhookId \in WebhookIds :
          SaveWebhookStart(c, Webhook(webhookId, None, "https://hooks.example/a", None))
    \/ \E c \in Callers : SaveWebhookWrite(c)
    \/ DbReady /\ \E c \in Callers, webhookId \in WebhookIds :
          DeleteWebhookStart(c, webhookId)
    \/ \E c \in Callers : DeleteWebhookWrite(c)

SpecConcurrentWebhooks == Init /\ [][NextConcurrentWebhooks]_vars

\* Stored webhooks, enabled and disabled, are made the registry and events are
\* sent.
NextDisabled ==
    \/ \E url \in DatabaseUrls : InitDatabaseStart(url, TRUE)
    \/ InitDatabaseQuery(TRUE)
    \/ DbReady /\ \E webhookId \in WebhookIds, enabled \in {None, Some(FALSE)} :
          SaveWebhookStart(1, Webhook(webhookId, None, UrlHttps, enabled))
    \/ SaveWebhookWrite(1)
    \/ DbReady /\ hook[1].pc = "idle" /\ LoadWebhookConfigs
    \/ SendWebhookStart("service_down", "T1", "d1")
    \/ SendWebhookReturn

SpecDisabled == Init /\ [][NextDisabled]_vars

\* The life of the two stores: both are initialised, with every failure
\* initDatabase and initSessionStore can meet, accounts are saved and loaded
\* and sessions created, and the stores are closed.
NextLifecycle ==
    \/ \E url \in DatabaseUrls, ok \in BOOLEAN : InitDatabaseStart(url, ok)
    \/ \E ok \in BOOLEAN : InitDatabaseQuery(ok)
    \/ DbReady /\ NoSaveInProgress /\ \E ok \in BOOLEAN : CloseDatabase(ok)
    \/ \E url \in RedisUrls : InitSessionStoreStart(url)
    \/ \E reply \in PingReplies : InitSessionStorePing(reply)
    \/ Listening /\ \E ok \in BOOLEAN : CloseSessionStore(ok)
    \/ DbReady /\ NoSaveInProgress /\ LoadAccounts(FALSE, "", None)
    \/ DbReady /\ NoSaveInProgress
          /\ \E accounts \in ConcurrentLists :
                SaveAccountsStart(1, accounts, FALSE, "", None)
    \/ Connect(1, TRUE)
    \/ Begin(1, TRUE)
    \/ DeleteStart(1, TRUE)
    \/ DeleteDone(1)
    \/ Insert(1, TRUE)
    \/ Commit(1, TRUE)
    \/ Listening /\ CreateSession(None, 0)
    \/ RedisReply

SpecLifecycle == Init /\ [][NextLifecycle]_vars

\* The usage history of a process in file mode and of a process in database
\* mode, given the same calls at the same times.
NextUsage ==
    \/ \E accountName \in AccountNames, usageAmount \in UsageAmounts :
          BothRecordUsage(accountName, usageAmount)
    \/ \E accountName \in AccountNameArgs, days \in DaysArgs :
          BothGetUsageHistory(accountName, days)
    \/ \E days \in DaySteps : DaysPass(days)

SpecUsage == Init /\ [][NextUsage]_vars

\* The admin password: the requests the server handles once it listens, over
\* the file or the table, with or without a password left by an older version.
NextPassword ==
    \/ \E password \in Passwords, inTable \in BOOLEAN : LegacyPassword(password, inTable)
    \/ \E url \in DatabaseUrls : InitDatabaseStart(url, TRUE)
    \/ InitDatabaseQuery(TRUE)
    \/ DbReady /\ \E password \in Passwords, ok \in BOOLEAN : SetPassword(password, ok)
    \/ DbReady /\ \E password \in Passwords, ok \in BOOLEAN : VerifyPassword(password, ok)
    \/ DbReady /\ \E password \in Passwords : RequireAuth(password)

SpecPassword == Init /\ [][NextPassword]_vars

\* password-utils.js on its own: verifyPassword over every password and stored
\* string, isHashed over every string and over no string.
NextPasswordUtils ==
    \/ \E password \in Passwords \cup {<<>>}, hash \in StoredStrings :
           VerifyPasswordCall(password, hash)
    \/ \E value \in {None} \cup {Some(string) : string \in StoredStrings} :
           IsHashedCall(value)

SpecPasswordUtils == Init /\ [][NextPasswordUtils]_vars

-----------------------------------------------------------------------------
(* Claims about notifications.js.                                           *)

\* A sendWebhook call starts in this step.
SendStarts == sw'.pc = "awaiting" /\ sw.pc # "awaiting"
\* A sendWebhook call returns in this step.
SendReturns == sw'.pc = "done" /\ sw.pc = "awaiting"

\* The registration receives every event type according to the data model:
\* its events list is absent or empty.
ReceivesAll(config) == config.events = None \/ Get(config.events) = <<>>

AttemptsTo(call, config) == {j \in DOMAIN call.attempts : call.attempts[j].config = config}

\* C1: for every event type, sendWebhook starts a delivery to every
\* registration whose events list is empty or absent.
C1_EmptyOrAbsentEventsReceiveAll ==
    [][SendStarts =>
         \A i \in DOMAIN webhookConfigs :
            ReceivesAll(webhookConfigs[i]) => AttemptsTo(sw', webhookConfigs[i]) # {}]_vars

\* C2: a registration whose events list is non-empty is never the target of a
\* delivery for an event type that is not in its list.
C2_NoDeliveryOutsideEventsList ==
    \A j \in DOMAIN sw.attempts :
        LET config == sw.attempts[j].config IN
        (config.events # None /\ Get(config.events) # <<>>)
            => sw.event \in Range(Get(config.events))

\* C2 witness: a call has finished with a delivery attempt while a stored
\* registration with a non-empty list that lacks the event got none.
C2_Witness ==
    /\ sw.pc = "done"
    /\ sw.attempts # <<>>
    /\ \E i \in DOMAIN webhookConfigs :
          /\ webhookConfigs[i].events # None
          /\ Get(webhookConfigs[i].events) # <<>>
          /\ sw.event \notin Range(Get(webhookConfigs[i].events))
          /\ AttemptsTo(sw, webhookConfigs[i]) = {}

C4_SendWebhookNeverRaises ==
    sw.ret # None =>
        /\ Get(sw.ret).kind = "returned"
        /\ Get(sw.ret).failed
               = Cardinality({j \in DOMAIN sw.attempts : sw.attempts[j].state = "rejected"})

\* C4 witness: a call with a target whose url does not parse has returned.
C4_Witness ==
    /\ sw.pc = "done"
    /\ \E j \in DOMAIN sw.attempts : sw.attempts[j].error = "Invalid URL"
    /\ Get(sw.ret).kind = "returned"
    /\ Get(sw.ret).failed >= 1

HasSecret(config) == config.secret # None /\ Get(config.secret) # ""

SignedAsClaimed(call) ==
    \A j \in DOMAIN call.attempts :
        LET a == call.attempts[j] IN
        /\ a.payload = call.payload
        /\ a.body # None => Get(a.body) = a.payload
        /\ a.options # None =>
              LET headers == Get(a.options).headers IN
              /\ "X-Webhook-Signature" \in DOMAIN headers <=> HasSecret(a.config)
              /\ HasSecret(a.config) =>
                    headers["X-Webhook-Signature"]
                        = Some(<<"hmac-sha256", Get(a.config.secret), a.payload>>)

\* C6: the request built for a delivery carries a signature header if and only
\* if the registration has a secret, the signature is the HMAC-SHA-256 under
\* that secret of the payload string that is the request body, and all targets
\* of one call get the same payload.
C6_SignatureIffSecretOverPayload == SignedAsClaimed(sw) /\ SignedAsClaimed(tw)

\* C6 witness: one call built a signed request for a target with a secret and
\* an unsigned one for a target whose secret is empty.
C6_Witness ==
    /\ sw.pc = "done"
    /\ \E j, k \in DOMAIN sw.attempts :
          /\ sw.attempts[j].options # None /\ sw.attempts[k].options # None
          /\ "X-Webhook-Signature" \in DOMAIN Get(sw.attempts[j].options).headers
          /\ "X-Webhook-Signature" \notin DOMAIN Get(sw.attempts[k].options).headers

-----------------------------------------------------------------------------
(* Claims about session-store.js.                                           *)

\* The token is in the store the calls use: the map, or the Redis keyspace.
Stored(token) ==
    \/ token \in DOMAIN memorySessions
    \/ token \in DOMAIN LiveKeys(redisKeys, now)

\* The last call to return was validateSession(token) for a token that
\* createSession had returned.
ValidatedIssued == last.op = "validate" /\ last.token \in DOMAIN issued

\* C8: validateSession never returns a session whose expiresAt is earlier than
\* the time of the call's return, and when it has returned null for a session
\* past its expiresAt the record is no longer in the store, in memory mode and
\* in Redis mode.
C8_NeverReturnsExpiredAndPurges ==
    /\ last.op = "validate" /\ last.session # None
          => ~(Get(last.session).expiresAt < last.at)
    /\ ValidatedIssued /\ last.at > issued[last.token].session.expiresAt
          => /\ last.session = None
             /\ ~Stored(last.token)

\* C8 witness: in Redis mode validateSession found a session past its expiresAt
\* whose key had not yet expired, deleted the key and returned null.
C8_Witness ==
    /\ UseRedis
    /\ ValidatedIssued
    /\ last.why = "expired"
    /\ last.session = None
    /\ last.at > issued[last.token].session.expiresAt

\* C9: a validateSession of a token that createSession returned, that has not
\* been destroyed and whose expiresAt the clock has not passed, returns a
\* session with the userId createSession was given ('admin' when none), and the
\* createdAt and expiresAt createSession computed, whatever other calls were
\* made in between.
C9_IssuedTokenValidates ==
    ValidatedIssued /\ ~last.wasDestroyed
        /\ last.at <= issued[last.token].session.expiresAt
    => /\ last.session # None
       /\ Get(last.session).userId
             = (IF issued[last.token].userId = None THEN "admin"
                ELSE Get(issued[last.token].userId))
       /\ Get(last.session).createdAt = issued[last.token].session.createdAt
       /\ Get(last.session).expiresAt = issued[last.token].session.expiresAt

\* C9 witness: in Redis mode a session created without a userId validates as
\* 'admin' at the very time of its expiresAt, after another session was
\* created and destroyed.
C9_Witness ==
    /\ UseRedis
    /\ ValidatedIssued
    /\ issued[last.token].userId = None
    /\ last.session # None
    /\ Get(last.session).userId = "admin"
    /\ last.at = Get(last.session).expiresAt
    /\ \E other \in DOMAIN issued : other # last.token /\ other \in destroyed

\* A destroySession(token) call returns in this step.
DestroyReturns(token) ==
    /\ last'.op = "destroy" /\ last'.token = token
    /\ last' # last \/ Len(calls') < Len(calls)

\* C10: once destroySession(token) has returned, every validateSession(token)
\* returns null; and a destroySession of a token that is not stored (already
\* destroyed, or unknown) leaves the stored sessions as they are and does not
\* raise.
C10_DestroyedNeverValidatesAndIdempotent ==
    /\ [](last.op = "validate" /\ last.wasDestroyed => last.session = None)
    /\ [][\A token \in 1..UnknownToken :
             DestroyReturns(token) /\ ~Stored(token)
             => /\ memorySessions' = memorySessions
                /\ redisKeys' = LiveKeys(redisKeys, now)
                /\ ~last'.raised]_vars

\* C10 witness: in Redis mode an unknown token has been destroyed, and a
\* validateSession of a destroyed token, whose session would not have expired
\* yet, has returned null.
C10_Witness ==
    /\ UseRedis
    /\ UnknownToken \in destroyed
    /\ ValidatedIssued
    /\ last.wasDestroyed
    /\ last.session = None
    /\ last.at <= issued[last.token].session.expiresAt

\* A validateSession(token) call returns in this step (a call with a falsy
\* token is recorded under UnknownToken).
ValidateReturns(token) ==
    /\ last'.op = "validate" /\ last'.token = token
    /\ last' # last \/ Len(calls') < Len(calls)

\* C11: a validateSession of a falsy token, or of a token that is not in the
\* store, returns null, does not raise and leaves the stored sessions as they
\* are.
C11_NullForEmptyOrUnknownToken ==
    [][\A token \in 1..UnknownToken :
          ValidateReturns(token) /\ ~Stored(token)
          => /\ last'.session = None
             /\ ~last'.raised
             /\ memorySessions' = memorySessions
             /\ redisKeys' = LiveKeys(redisKeys, now)]_vars

\* C11 witness: in Redis mode, with a session stored, a validateSession of a
\* token that was never issued has returned null.
C11_Witness ==
    /\ UseRedis
    /\ DOMAIN redisKeys # {}
    /\ last.op = "validate"
    /\ last.token = UnknownToken
    /\ last.why = "unknown"
    /\ last.session = None

\* The sessions in the store, by token: the values of the map, and the parsed
\* values of the Redis keys.
StoredSessions(map, keys) ==
    [token \in DOMAIN map \cup DOMAIN keys |->
        IF token \in DOMAIN map THEN map[token]
        ELSE ParseSession(keys[token].value)]

\* C12: every stored session has expiresAt = createdAt + TTL, the TTL being 10
\* days, and no step changes the expiresAt of a session that stays stored.
C12_ExpiresAtIsCreatedAtPlusTtl ==
    /\ [](\A token \in DOMAIN StoredSessions(memorySessions, redisKeys) :
            LET session == StoredSessions(memorySessions, redisKeys)[token] IN
            session.expiresAt = session.createdAt + Seconds(10 * 24 * 60 * 60 * 1000))
    /\ [][\A token \in DOMAIN StoredSessions(memorySessions, redisKeys)
                        \cap DOMAIN StoredSessions(memorySessions', redisKeys') :
             StoredSessions(memorySessions', redisKeys')[token].expiresAt
                = StoredSessions(memorySessions, redisKeys)[token].expiresAt]_vars

\* C13: the same calls at the same times return the same results in memory
\* mode and in Redis mode (the token of createSession aside), the count of
\* getActiveSessionCount included.
C13_MemoryAndRedisReturnTheSame ==
    last.op \in {"create", "validate", "destroy", "count"}
        => last.memory = last.redis

-----------------------------------------------------------------------------
(* Claims about db.js (part_002): accounts.                                 *)

\* The names and tokens of a list of accounts, in order.
NamesAndTokens(list) == [i \in DOMAIN list |-> <<list[i].name, list[i].token>>]

\* The last loadAccounts call followed a saveAccounts call that returned true,
\* with no saveAccounts call in between, and had the same encryption arguments.
LoadedAfterSave ==
    /\ loaded.op = "load"
    /\ lastSaved # None
    /\ loaded.encryptionEnabled = Get(lastSaved).encryptionEnabled
    /\ loaded.secret = Get(lastSaved).secret

\* C14: a loadAccounts(scope) that follows a saveAccounts(scope, L) that
\* returned true returns the accounts of L, same names and tokens in the same
\* order, whatever is stored in other scopes, in the file backend and in the
\* relational backend, for the absent scope and for a user scope.
C14_LoadReturnsWhatWasSaved ==
    LoadedAfterSave /\ loaded.userId = Get(lastSaved).userId
        => NamesAndTokens(loaded.ret) = NamesAndTokens(Get(lastSaved).accounts)

\* C15: loadAccounts(scope) returns only accounts saved under that scope: for a
\* user scope accounts of that user, for the absent scope accounts saved
\* without a user, in both backends.
C15_LoadReturnsOnlyTheScope ==
    loaded.op = "load" => Names(loaded.ret) \subseteq savedNames[loaded.userId]

\* The saveAccounts call of caller c ends in this step, in the relational
\* branch.
SaveEnds(c) == save'[c].pc = "done" /\ save[c].pc \notin {"idle", "done"}

\* C16: in the relational backend a saveAccounts call in which a step fails
\* (the connection, BEGIN, the DELETE, an INSERT, COMMIT or the ROLLBACK)
\* returns false and does not raise, and the stored accounts change only in
\* the step in which a call commits and returns true.
C16_SaveIsAllOrNothing ==
    [][/\ \A c \in Callers :
            SaveEnds(c) => /\ ~save'[c].raised
                           /\ save'[c].ret \in {Some(TRUE), Some(FALSE)}
                           /\ save[c].pc = "rollback" => save'[c].ret = Some(FALSE)
       /\ accountsTable' # accountsTable
            => \E c \in Callers : SaveEnds(c) /\ save'[c].ret = Some(TRUE)]_vars

\* The accounts stored for a scope, by ascending id: names and clear tokens.
StoredFor(userId) ==
    LET rows == RowsInOrder(accountsTable,
                            {id \in DOMAIN accountsTable :
                                accountsTable[id].user_id = userId})
    IN [i \in DOMAIN rows |-> <<rows[i].name, rows[i].token>>]

\* C17: when two saveAccounts calls for the same scope have both returned
\* true in the relational backend, the accounts stored for the scope are the
\* list of one of the two calls, not a union or a mixture.
C17_ConcurrentSavesLastCommitWins ==
    \A c1, c2 \in Callers :
        /\ c1 # c2
        /\ save[c1].pc = "done" /\ save[c1].ret = Some(TRUE)
        /\ save[c2].pc = "done" /\ save[c2].ret = Some(TRUE)
        /\ save[c1].userId = save[c2].userId
        => \/ StoredFor(save[c1].userId) = NamesAndTokens(save[c1].accounts)
           \/ StoredFor(save[c1].userId) = NamesAndTokens(save[c2].accounts)

RECURSIVE RowRecords(_)
\* Rows as account records: name, clear token, ciphertext.
RowRecords(rows) ==
    IF rows = <<>> THEN <<>>
    ELSE <<Account(Head(rows).name, Head(rows).token, Head(rows).encrypted_token)>>
         \o RowRecords(Tail(rows))

\* The stored records: those of the file, or the rows of the table whose id is
\* in ids.
StoredRecords(ids) ==
    IF isDatabaseEnabled THEN RowRecords(RowsInOrder(accountsTable, ids))
    ELSE IF accountsFile = None THEN <<>> ELSE Get(accountsFile)

\* The stored records a loadAccounts(userId) reads.
ReadRecords(userId) ==
    StoredRecords({id \in DOMAIN accountsTable : Selected(accountsTable[id], userId)})

\* The stored records a saveAccounts(userId) replaces.
ScopeRecords(userId) ==
    StoredRecords({id \in DOMAIN accountsTable : accountsTable[id].user_id = userId})

\* C18: with encryption enabled and the key of the save, a loadAccounts that
\* follows a saveAccounts of the same scope returns every saved account with
\* its original clear token, in both backends.
C18_EncryptedRoundTrip ==
    LoadedAfterSave /\ loaded.encryptionEnabled
        /\ loaded.userId = Get(lastSaved).userId
    => \A i \in DOMAIN Get(lastSaved).accounts :
          \E j \in DOMAIN loaded.ret :
              /\ loaded.ret[j].name = Get(lastSaved).accounts[i].name
              /\ loaded.ret[j].token = Get(lastSaved).accounts[i].token

\* C18 witness: in the relational backend two accounts were saved encrypted
\* and then loaded with the same key.
C18_Witness ==
    /\ isDatabaseEnabled
    /\ LoadedAfterSave /\ loaded.encryptionEnabled
    /\ loaded.userId = Get(lastSaved).userId
    /\ Len(Get(lastSaved).accounts) = 2
    /\ \A i \in DOMAIN ScopeRecords(loaded.userId) :
          ScopeRecords(loaded.userId)[i].encryptedToken # None
    /\ Len(loaded.ret) = 2

\* C19: no stored account record, in the file or in the table, holds both a
\* clear token and an encrypted token; and after a saveAccounts with encryption
\* enabled every account whose token was encrypted is stored with the
\* ciphertext only.
C19_NeverBothClearAndEncrypted ==
    /\ \A i \in DOMAIN StoredRecords(DOMAIN accountsTable) :
          ~(/\ StoredRecords(DOMAIN accountsTable)[i].token # None
            /\ StoredRecords(DOMAIN accountsTable)[i].encryptedToken # None)
    /\ lastSaved # None /\ Get(lastSaved).encryptionEnabled
          => \A i \in DOMAIN ScopeRecords(Get(lastSaved).userId) :
                ScopeRecords(Get(lastSaved).userId)[i].encryptedToken # None
                    => ScopeRecords(Get(lastSaved).userId)[i].token = None

\* The ciphertext of a stored record can be decrypted with the secret.
Decryptable(record, secret) ==
    record.encryptedToken # None /\ Get(record.encryptedToken)[2] = secret

\* C20: a loadAccounts in which the decryption of a record fails does not
\* raise and returns one entry per record read, every record that can be
\* decrypted with its token and every clear record with its token; and after a
\* saveAccounts with encryption enabled in which the encryption of a record
\* failed, every account is stored, the others with their ciphertext.
C20_CryptoFailuresAreIsolated ==
    /\ loaded.op = "load"
          => LET stored == ReadRecords(loaded.userId) IN
             /\ ~loaded.raised
             /\ Len(loaded.ret) = Len(stored)
             /\ \A i \in DOMAIN stored :
                   /\ loaded.ret[i].name = stored[i].name
                   /\ loaded.encryptionEnabled /\ Decryptable(stored[i], loaded.secret)
                         => loaded.ret[i].token
                               = Some(Get(stored[i].encryptedToken)[3])
                   /\ stored[i].encryptedToken = None
                         => loaded.ret[i].token = stored[i].token
    /\ lastSaved # None /\ Get(lastSaved).encryptionEnabled
          => LET stored == ScopeRecords(Get(lastSaved).userId)
                 accounts == Get(lastSaved).accounts IN
             /\ Len(stored) = Len(accounts)
             /\ \A i \in DOMAIN accounts :
                   /\ stored[i].name = accounts[i].name
                   /\ IF Get(accounts[i].token) \in UnencryptableTokens
                      THEN stored[i].token = accounts[i].token
                      ELSE stored[i].encryptedToken
                              = Some(<<"enc", Get(lastSaved).secret,
                                       Get(accounts[i].token)>>)

\* C20 witness: a loadAccounts read a record whose decryption failed and a
\* record that it decrypted, and returned an entry for each.
C20_Witness ==
    /\ loaded.op = "load" /\ loaded.encryptionEnabled
    /\ \E i, j \in DOMAIN ReadRecords(loaded.userId) :
          /\ ReadRecords(loaded.userId)[i].encryptedToken # None
          /\ ~Decryptable(ReadRecords(loaded.userId)[i], loaded.secret)
          /\ Decryptable(ReadRecords(loaded.userId)[j], loaded.secret)
          /\ loaded.ret[j].token # None
    /\ Len(loaded.ret) = Len(ReadRecords(loaded.userId))

\* C21: no account returned by loadAccounts carries a ciphertext field, in
\* both backends, also for a record whose decryption failed and also when
\* encryption is disabled while stored records are encrypted.
C21_LoadNeverReturnsCiphertext ==
    loaded.op = "load"
        => \A i \in DOMAIN loaded.ret : loaded.ret[i].encryptedToken = None

-----------------------------------------------------------------------------
(* Claims about db.js (part_002): users and webhooks.                       *)

\* The usernames of a set of users.
UsernamesOf(users) == {u.username : u \in users}

\* C22: usernames are unique in every reachable state, in the file and in the
\* table, and a createUser with a username that exists ends with the conflict
\* error and leaves the users as they were.
C22_UsernamesAreUnique ==
    /\ \A i, j \in DOMAIN loadUsersFromFile :
          loadUsersFromFile[i].username = loadUsersFromFile[j].username => i = j
    /\ \A i, j \in DOMAIN usersTable :
          usersTable[i].username = usersTable[j].username => i = j
    /\ ended.op = "createUser" /\ ended.arg \in UsernamesOf(ended.before)
          => /\ ended.raised = Some(UsernameExists)
             /\ ended.ret = None
             /\ StoredUsers = ended.before

\* C22 witness: in the file backend, with two users stored, a createUser with
\* the username of one of them has ended with the conflict error.
C22_Witness ==
    /\ ~isDatabaseEnabled
    /\ ended.op = "createUser" /\ ended.arg \in UsernamesOf(ended.before)
    /\ ended.raised = Some(UsernameExists)
    /\ Len(loadUsersFromFile) = 2

\* C23: after deleteUser(id) has returned true, no account and no webhook
\* owned by that user is stored in the active backend.
C23_DeleteUserCascades ==
    ended.op = "deleteUser" /\ ended.ret = Some(TRUE)
        => /\ \A w \in StoredWebhooks : w.userId # Some(ended.arg)
           /\ isDatabaseEnabled
                 => \A id \in DOMAIN accountsTable :
                       accountsTable[id].user_id # Some(ended.arg)

\* C24: after saveWebhook(w) has returned, exactly one registration with the
\* id of w is stored and it is w, the registrations with another id are those
\* stored when the call started, and when w was stored already the stored
\* set is what it was.
C24_SaveWebhookIsAnIdempotentUpsert ==
    ended.op = "saveWebhook" /\ ended.ret = Some(TRUE)
        => LET w == Webhook(ended.arg.id, ended.arg.userId, ended.arg.url,
                            Some(EnabledColumn(ended.arg)))
           IN /\ {r \in StoredWebhooks : r.id = w.id} = {w}
              /\ {r \in StoredWebhooks : r.id # w.id}
                    = {r \in ended.before : r.id # w.id}
              /\ w \in ended.before => StoredWebhooks = ended.before

-----------------------------------------------------------------------------
(* Claims about the choice of the backends.                                 *)

\* C25: once initDatabase has returned the persistence backend in use does not
\* change, and once initSessionStore has returned the session backend in use
\* does not change, whatever exported operation is called.
C25_BackendsAreFrozenAfterStartup ==
    [][/\ DbReady => isDatabaseEnabled' = isDatabaseEnabled
       /\ Listening => UseRedis' = UseRedis]_vars

\* initDatabase has returned without enabling the database.
FellBackToFile ==
    DbReady /\ ~(databaseUrl # None /\ created = InitStatements)

\* C26: the database is enabled only if a connection string was configured
\* and the probe, the creation of every table and the creation of the index
\* all succeeded; otherwise initDatabase ends with the database disabled and
\* every saveAccounts that follows writes the file and no table.
C26_DatabaseEnabledOnlyAfterFullInit ==
    /\ [](isDatabaseEnabled => databaseUrl # None /\ created = InitStatements)
    /\ [](FellBackToFile => ~isDatabaseEnabled /\ pool = None)
    /\ [][FellBackToFile /\ save' # save
             => /\ accountsFile' = Some(save'[1].accounts)
                /\ save'[1].ret = Some(TRUE)
                /\ UNCHANGED <<accountsTable, nextId>>]_vars

\* C26 witness: a connection string was configured, the probe succeeded and
\* the creation of a table failed; the database is disabled and a saveAccounts
\* has written the file.
C26_Witness ==
    /\ FellBackToFile
    /\ databaseUrl # None
    /\ Len(created) >= 3
    /\ ~isDatabaseEnabled
    /\ accountsFile # None

-----------------------------------------------------------------------------
(* Claims about db.js (part_002): the usage history.                        *)

\* C27: in file mode the history written by a recordUsage call holds no
\* record older than 30 days; in database mode no call removes a row of
\* usage_history, and getUsageHistory(days) returns no record older than the
\* window although it is stored.
C27_FileIsPrunedDatabaseIsFiltered ==
    /\ [][usageFile' # usageFile
             => \A i \in DOMAIN Get(usageFile') :
                   now' - Get(usageFile')[i].recordedAt <= ThirtyDays]_vars
    /\ [][/\ Len(usageTable') >= Len(usageTable)
          /\ \A i \in DOMAIN usageTable : usageTable'[i] = usageTable[i]]_vars
    /\ [](usageRet.op = "get"
             => \A i \in DOMAIN usageRet.db :
                   usageRet.at - usageRet.db[i].recordedAt
                        < usageRet.days * Seconds(DayMs))

\* C27 witness: a record older than 30 days is gone from the file and still in
\* the table, and a getUsageHistory(30) in database mode has left it out.
C27_Witness ==
    /\ usageRet.op = "get" /\ usageRet.days = 30 /\ usageRet.at = now
    /\ usageFile # None
    /\ Len(Get(usageFile)) = 1 /\ Len(usageTable) = 2
    /\ now - usageTable[1].recordedAt > ThirtyDays
    /\ Len(usageRet.db) = 1

RECURSIVE Ascending(_)
\* The records are in ascending order of recordedAt.
Ascending(list) ==
    Len(list) < 2 \/ (/\ list[1].recordedAt <= list[2].recordedAt
                      /\ Ascending(Tail(list)))

\* C28: a getUsageHistory call returns its records in ascending order of
\* recordedAt and returns the same records in file mode and in database mode,
\* given the same recordUsage calls at the same times, for every value of days.
C28_FileAndDatabaseReturnTheSameHistory ==
    usageRet.op = "get"
        => /\ Ascending(usageRet.file)
           /\ Ascending(usageRet.db)
           /\ usageRet.file = usageRet.db

-----------------------------------------------------------------------------
(* Claims about the admin password.                                         *)

\* C29: when the stored admin password is a plaintext value and the
\* verification of the matching password has succeeded, the stored value is a
\* hash and no longer the plaintext.
C29_VerifiedPlaintextIsRehashed ==
    auth.valid /\ ~isHashed(auth.saved)
        => isHashed(loadPassword) /\ loadPassword # auth.saved

\* C30: what saveAdminPassword stores is the hash of the password it was
\* given, never the password, and once the server listens a stored password
\* that is a hash is a hash in every later state.
C30_OnlyHashesAreStored ==
    /\ [](auth.stored
             => /\ loadPassword = Some(hashPassword(auth.password))
                /\ isHashed(loadPassword)
                /\ loadPassword # Some(auth.password))
    /\ [][DbReady /\ isHashed(loadPassword) => isHashed(loadPassword')]_vars

\* C30 witness: a plaintext password was verified and saveAdminPassword has
\* stored its hash in its place.
C30_Witness ==
    /\ auth.route = "verify-password" /\ auth.stored
    /\ auth.saved = Some(auth.password)
    /\ loadPassword = Some(hashPassword(auth.password))

\* C31: verifyPassword(p, stored) is true exactly when stored is in hash format
\* and is the hash of p, or stored is not in hash format and equals p; isHashed
\* is false for no string, for the empty string and for every string that does
\* not start with $2.
C31_VerifyPasswordAndIsHashed ==
    /\ util.verify.password # None =>
         LET p == Get(util.verify.password)
             stored == Get(util.verify.hash)
         IN util.verify.ret
              <=> \/ isHashed(Some(stored)) /\ stored = hashPassword(p)
                  \/ ~isHashed(Some(stored)) /\ stored = p
    /\ util.hashed.called =>
         /\ util.hashed.value = None => ~util.hashed.ret
         /\ util.hashed.value = Some(<<>>) => ~util.hashed.ret
         /\ util.hashed.value # None =>
              (util.hashed.ret <=> /\ Get(util.hashed.value) # <<>>
                                   /\ Head(Get(util.hashed.value)) = "$2")

\* C31 witness: a plaintext stored password was verified by equality, and
\* isHashed was called with no string.
C31_Witness ==
    /\ util.verify.password = Some(<<"abc123">>)
    /\ util.verify.hash = Some(<<"abc123">>)
    /\ util.verify.ret
    /\ util.hashed.called /\ util.hashed.value = None /\ ~util.hashed.ret

-----------------------------------------------------------------------------
(* Claims about the registry, the stored webhooks and the stored users.     *)

\* C32: addWebhook(config) appends exactly one registration and returns the id
\* of the registration it stored, for every config, also one that carries an
\* id: removeWebhook of the returned id then returns true and gives back the
\* registrations of before the add.
C32_AddThenRemoveRestores ==
    reg.op = "addWebhook" =>
        /\ Len(webhookConfigs) = Len(reg.before) + 1
        /\ webhookConfigs[Len(webhookConfigs)].id = Get(reg.ret)
        /\ FindIndex(webhookConfigs, Get(reg.ret)) # 0
        /\ removeWebhook(webhookConfigs, Get(reg.ret)) = reg.before

\* C33: removeWebhook, deleteWebhook and deleteUser called with an id that is
\* not stored return false, raise nothing and leave the registrations, the
\* stored webhooks and the stored users as they were.
C33_RemovingTheAbsentChangesNothing ==
    /\ [](/\ reg.op = "removeWebhook" /\ FindIndex(reg.before, Get(reg.arg)) = 0
             => reg.ret = Some(FALSE) /\ webhookConfigs = reg.before
          /\ ended.op = "deleteWebhook"
               /\ ended.arg \notin {w.id : w \in ended.before}
             => ended.ret = Some(FALSE) /\ ended.raised = None
          /\ ended.op = "deleteUser"
               /\ ended.arg \notin {u.id : u \in ended.before}
             => ended.ret = Some(FALSE) /\ ended.raised = None)
    /\ [][ended'.op \in {"deleteWebhook", "deleteUser"} /\ ended'.ret = Some(FALSE)
            => /\ StoredWebhooks' = StoredWebhooks
               /\ StoredUsers' = StoredUsers
               /\ accountsTable' = accountsTable]_vars

\* C33 witness: with a registration, a webhook and a user stored, a
\* removeWebhook and a deleteWebhook of ids that are not stored returned false.
C33_Witness ==
    /\ reg.op = "removeWebhook" /\ reg.ret = Some(FALSE) /\ reg.before # <<>>
    /\ ended.op = "deleteWebhook" /\ ended.ret = Some(FALSE)
    /\ StoredWebhooks # {} /\ StoredUsers # {}

-----------------------------------------------------------------------------
(* Claims about the session store: the count, the sweep, initialization.    *)

\* The tokens stored in the store in use.
StoredTokens ==
    IF UseRedis THEN DOMAIN LiveKeys(redisKeys, now) ELSE DOMAIN memorySessions

Unexpired ==
    [t \in {x \in DOMAIN memorySessions : ~(memorySessions[x].expiresAt < now)}
        |-> memorySessions[t]]

\* The token is in the map with an expiresAt before the current time.
ExpiredInMap(token) ==
    IF token \in DOMAIN memorySessions
    THEN memorySessions[token].expiresAt < now ELSE FALSE

\* C35: in memory mode a sweep removes from the map the sessions whose
\* expiresAt is before the current time and no other; with the timer running
\* every expired session of the map is removed in the end; in Redis mode the
\* sweep changes nothing.
C35_SweepRemovesExactlyTheExpired ==
    /\ [][/\ memorySessions' # memorySessions /\ DOMAIN issued' = DOMAIN issued
               => ~isRedisEnabled /\ memorySessions' = Unexpired
          /\ isRedisEnabled => memorySessions' = memorySessions]_vars
    /\ \A token \in 1..MaxTokens :
          [](Listening /\ ~isRedisEnabled /\ ExpiredInMap(token)
               => <>(token \notin DOMAIN memorySessions))

\* C35 witness: in memory mode the sweep has removed an expired session and
\* left an unexpired one in the map.
C35_Witness ==
    /\ Listening /\ ~isRedisEnabled
    /\ \E token \in DOMAIN issued :
          /\ token \notin DOMAIN memorySessions
          /\ issued[token].session.expiresAt < now
    /\ \E token \in DOMAIN memorySessions : memorySessions[token].expiresAt >= now

\* C36: a token that createSession returned while initSessionStore was in
\* progress, that was not destroyed and has not expired, validates once
\* initSessionStore has returned.
C36_SessionsSurviveInitialization ==
    Listening /\ ValidatedIssued /\ ~last.wasDestroyed
        /\ last.at <= issued[last.token].session.expiresAt
    => last.session = Some(issued[last.token].session)

-----------------------------------------------------------------------------
(* Claims about concurrent calls and about ids.                             *)

\* C37: in file mode a saveWebhook or a deleteWebhook that writes the file
\* leaves the registrations with another id as they were stored just before
\* it wrote, so that what an overlapping call has written is not lost.
C37_NoLostWebhookUpdate ==
    [][~isDatabaseEnabled /\ webhooksFile' # webhooksFile
         => LET id == IF ended'.op = "saveWebhook" THEN ended'.arg.id
                      ELSE ended'.arg
            IN {r \in StoredWebhooks' : r.id # id}
                  = {r \in StoredWebhooks : r.id # id}]_vars

\* C38: in the file backend no two stored users have the same id, and the id
\* createUser returns is the id of no user that was stored when it was called.
C38_FileUserIdsAreUnique ==
    ~isDatabaseEnabled =>
        /\ \A i, j \in DOMAIN loadUsersFromFile :
              i # j => loadUsersFromFile[i].id # loadUsersFromFile[j].id
        /\ ended.op = "createUser" /\ ended.ret # None
              => Get(ended.ret) \notin {u.id : u \in ended.before}

\* C39: a saveAccounts call for one scope leaves what loadAccounts returns
\* for every other scope as it was: the list loadAccounts(s2) returns changes
\* only in a step of a saveAccounts call for s2, in both backends.
C39_SaveLeavesOtherScopesAlone ==
    [][\A s2 \in Scopes :
          loadAccounts(FALSE, "", s2)' # loadAccounts(FALSE, "", s2)
             => \E c \in Callers : save'[c].pc # "idle" /\ save'[c].userId = s2]_vars

-----------------------------------------------------------------------------
(* Claim about disabled webhooks.                                           *)

\* C40: no delivery attempt of sendWebhook goes to a registration whose
\* enabled flag is false.
C40_NoDeliveryToDisabled ==
    \A j \in DOMAIN sw.attempts :
        sw.attempts[j].config.enabled # Some(FALSE)

=============================================================================
